---- MODULE Spec2Model ----
(***************************************************************************)
(* gh-pr-comments: a GitHub CLI extension giving structured access to the  *)
(* reviews, review comments and issue comments of a pull request.          *)
(*                                                                         *)
(* The model has two halves.  The server half is the pull request as    *)
(* GitHub holds it: reviews,    review comments (REST), review threads     *)
(* (GraphQL, served in pages) and issue comments.  The client half is one  *)
(* run of one command: its flags and arguments, the lists it has fetched,  *)
(* the indexes it has built, its results, and the log of the API calls it  *)
(* has issued.  Every API call may fail.                                   *)
(***************************************************************************)
EXTENDS Integers, Sequences, FiniteSets, TLC

VARIABLES
    srvReviews,        \* reviews of the PR, in REST order
    srvComments,       \* review comments of the PR, in REST order
    srvThreads,        \* review threads of the PR, in GraphQL order
    srvIssueComments,  \* issue comments of the PR, in REST order
    cmd,               \* the command being run
    flags,             \* its flags (package-level flag variables)
    args,              \* its positional arguments
    prArg,             \* the PR reference given to the command (<<>> is none)
    env,               \* ambient git repository, branch and its PRs
    prRef,             \* the PRReference being resolved
    pc,                \* position of the run inside the handler
    err,               \* error returned by the handler ("" is nil)
    warned,            \* a warning was written to stderr
    reviews,           \* fetched reviews
    comments,          \* fetched review comments
    issueComments,     \* fetched issue comments
    resolvedMap,       \* comment ID -> isResolved (getResolvedStatus)
    threads,           \* fetched review threads (GetReviewThreads)
    cursor,            \* pagination cursor of GetReviewThreads
    commentToThread,   \* comment ID -> thread ID (runResolve)
    processedThreads,  \* thread IDs already handled (runResolve)
    handled,           \* number of loop items already handled
    candidates,        \* ReviewCleanupCandidate list (runCleanup)
    targets,           \* hide targets (hideBatch)
    cleanupResults,    \* CleanupInfo list (performAutoCleanup)
    results,           \* per-item results of the run
    output,            \* what the command prints
    calls              \* API calls issued so far, in order

srvVars == <<srvReviews, srvComments, srvThreads, srvIssueComments>>
refVars == <<prArg, env, prRef>>
runVars == <<cmd, flags, args, refVars>>
fetchVars == <<reviews, comments, issueComments, resolvedMap, threads, cursor>>
loopVars == <<commentToThread, processedThreads, handled, candidates, targets,
              cleanupResults>>
workVars == <<loopVars, results, output>>
vars == <<srvVars, runVars, pc, err, warned, fetchVars, workVars, calls>>

----------------------------------------------------------------------------
(* Bounds of the model. *)

MaxComments == 3
MaxThreads == 3

(* Nullable values (Go pointers to int and to graphql.String): Null is nil *)
(* or JSON null, and Some(v) points to v.                                  *)
Null == <<>>
Some(v) == <<v>>

----------------------------------------------------------------------------
(* Generic helpers. *)

Range(s) == {s[i] : i \in DOMAIN s}

Min(a, b) == IF a < b THEN a ELSE b

EmptyMap == [x \in {} |-> FALSE]

RECURSIVE SetToSeq(_)
SetToSeq(S) ==
    IF S = {} THEN <<>>
    ELSE LET m == CHOOSE x \in S : \A y \in S : x <= y
         IN <<m>> \o SetToSeq(S \ {m})

Prefix(s, n) == SubSeq(s, 1, Min(n, Len(s)))

----------------------------------------------------------------------------
(* The data model (internal/github types).                                 *)

(* ReviewComment.  Position and Line are nullable REST fields; IsResolved  *)
(* is not a REST field, so a decoded comment carries the zero value FALSE  *)
(* until GetReviewComments overwrites it.                                  *)
ReviewComment(id, reviewID, position, line, login) ==
    [ID |-> id, NodeID |-> <<"PRRC", id>>, PullRequestReviewID |-> reviewID,
     Position |-> position, Line |-> line,
     OriginalPosition |-> Some(3), OriginalLine |-> Some(5),
     CommitID |-> "c1", OriginalCommitID |-> "c1",
     Login |-> login, IsResolved |-> FALSE]

(* IssueComment *)
IssueComment(id, login, createdAt) ==
    [ID |-> id, NodeID |-> <<"IC", id>>, Login |-> login, CreatedAt |-> createdAt]

(* Review *)
Review(id, login, submittedAt) ==
    [ID |-> id, NodeID |-> <<"PRR", id>>, Login |-> login, SubmittedAt |-> submittedAt]

(* ReviewThread: opaque thread ID, resolved flag, member comment IDs. *)
ReviewThread(n, isResolved, commentIDs) ==
    [ID |-> <<"PRRT", n>>, IsResolved |-> isResolved, CommentIDs |-> commentIDs]

IsOutdated_BothNull(rc) == rc.Position = Null /\ rc.Line = Null

(* ReviewComment.IsOutdated *)
IsOutdated(rc) == rc.Position = Null \/ rc.Line = Null

----------------------------------------------------------------------------
(* The GitHub server, as far as the client's queries see it.               *)

(* The GraphQL queries ask for reviewThreads(first: 100) and, inside each  *)
(* thread, comments(first: 100).  The model scales both page sizes down so *)
(* that a second page exists within the bounds.                            *)
ThreadsFirst == 2
CommentsFirst == 2

(* One node of a reviewThreads page: the thread with the first             *)
(* CommentsFirst of its comments.                                          *)
ThreadNode(t) ==
    [ID |-> t.ID, IsResolved |-> t.IsResolved,
     Comments |-> Prefix(t.CommentIDs, CommentsFirst)]

(* The reviewThreads page after cursor `after` (Null: the first page).     *)
(* A cursor is the number of threads that precede the next page.           *)
ReviewThreadsPage(after) ==
    LET from == IF after = Null THEN 0 ELSE after[1]
        to   == Min(from + ThreadsFirst, Len(srvThreads))
    IN [Nodes       |-> [i \in 1..(to - from) |-> ThreadNode(srvThreads[from + i])],
        HasNextPage |-> to < Len(srvThreads),
        EndCursor   |-> to]

(* The index in srvThreads of the thread that holds comment id; 0: none. *)
ThreadOf(id) ==
    IF \E i \in DOMAIN srvThreads : id \in Range(srvThreads[i].CommentIDs)
    THEN (CHOOSE i \in DOMAIN srvThreads : id \in Range(srvThreads[i].CommentIDs))
    ELSE 0

(* Every way nc comments (IDs 1..nc) are grouped into at most MaxThreads   *)
(* non-empty threads, each thread resolved or not.                         *)
ThreadWorlds(nc) ==
    UNION { { [i \in 1..nt |->
                 ReviewThread(i, r[i], SetToSeq({c \in 1..nc : f[c] = i}))]
              : f \in {g \in [1..nc -> 1..nt] : \A i \in 1..nt : \E c \in 1..nc : g[c] = i},
                r \in [1..nt -> BOOLEAN] }
            : nt \in 0..Min(nc, MaxThreads) }

----------------------------------------------------------------------------
(* internal/github client: GetReviewComments and getResolvedStatus.        *)

(* result[comment.DatabaseId] = thread.IsResolved, for each comment of one *)
(* thread node. *)
PutResolved(m, node) ==
    [id \in DOMAIN m \cup Range(node.Comments) |->
        IF id \in Range(node.Comments) THEN node.IsResolved ELSE m[id]]

RECURSIVE ResolvedOfNodes(_, _)
ResolvedOfNodes(nodes, m) ==
    IF nodes = <<>> THEN m
    ELSE ResolvedOfNodes(Tail(nodes), PutResolved(m, Head(nodes)))

(* getResolvedStatus: ONE query, reviewThreads(first: 100) with no cursor; *)
(* PageInfo is selected but never read.                                    *)
getResolvedStatus == ResolvedOfNodes(ReviewThreadsPage(Null).Nodes, EmptyMap)

MergeResolved_MissingIsResolved(cs, m) ==
    [i \in DOMAIN cs |->
        [cs[i] EXCEPT !.IsResolved =
            IF cs[i].ID \in DOMAIN m THEN m[cs[i].ID] ELSE TRUE]]

(* The merge loop of GetReviewComments. *)
MergeResolved(cs, m) ==
    [i \in DOMAIN cs |->
        IF cs[i].ID \in DOMAIN m
        THEN [cs[i] EXCEPT !.IsResolved = m[cs[i].ID]]
        ELSE cs[i]]

(* One entry of the log of calls made to the API: what was called, with  *)
(* which argument, and whether the call returned without error.          *)
Call(op, arg) == [op |-> op, arg |-> arg, ok |-> TRUE]

Outcome(c, ok) == [c EXCEPT !.ok = ok]

Failed(op, arg) == Outcome(Call(op, arg), FALSE)

GetReviewComments_FatalStatus(restOK, gqlOK) ==
    IF restOK /\ gqlOK
    THEN [comments |-> MergeResolved(srvComments, getResolvedStatus),
          err |-> "", warned |-> FALSE,
          calls |-> <<Call("GET pulls/comments", Null),
                      Call("query GetReviewThreads", Null)>>]
    ELSE [comments |-> <<>>, err |-> "failed to get review comments",
          warned |-> restOK,
          calls |-> IF restOK
                    THEN <<Call("GET pulls/comments", Null),
                           Failed("query GetReviewThreads", Null)>>
                    ELSE <<Failed("GET pulls/comments", Null)>>]

(* Client.GetReviewComments as one call: the REST fetch succeeds or not,   *)
(* the resolved-status query succeeds or not.  A failed REST fetch returns *)
(* the error; a failed status query only warns and leaves every comment    *)
(* with IsResolved = FALSE.                                                *)
GetReviewComments(restOK, gqlOK) ==
    IF ~restOK
    THEN [comments |-> <<>>, err |-> "failed to get review comments",
          warned |-> FALSE,
          calls |-> <<Failed("GET pulls/comments", Null)>>]
    ELSE [comments |-> IF gqlOK THEN MergeResolved(srvComments, getResolvedStatus)
                       ELSE srvComments,
          err |-> "",
          warned |-> ~gqlOK,
          calls |-> <<Call("GET pulls/comments", Null),
                      Outcome(Call("query GetReviewThreads", Null), gqlOK)>>]

(* Client.GetReviews *)
GetReviews(restOK) ==
    IF restOK
    THEN [reviews |-> srvReviews, err |-> "",
          calls |-> <<Call("GET pulls/reviews", Null)>>]
    ELSE [reviews |-> <<>>, err |-> "failed to get reviews",
          calls |-> <<Failed("GET pulls/reviews", Null)>>]

(* Client.GetIssueComments *)
GetIssueComments(restOK) ==
    IF restOK
    THEN [comments |-> srvIssueComments, err |-> "",
          calls |-> <<Call("GET issues/comments", Null)>>]
    ELSE [comments |-> <<>>, err |-> "failed to get issue comments",
          calls |-> <<Failed("GET issues/comments", Null)>>]

----------------------------------------------------------------------------
(* State of a run before its first step. *)

NoFlags == [x \in {} |-> FALSE]

(* type PRReference *)
PRReference(owner, repo, number) ==
    [Owner |-> owner, Repo |-> repo, Number |-> number]

(* The reference before ResolvePRReference has returned one. *)
NoRef == PRReference(<<>>, <<>>, 0)

(* A reference resolved before the run: no argument, no ambient lookup     *)
(* left to do.                                                             *)
NoEnv == [Repo |-> Null, Branch |-> Null, PRs |-> <<>>]

ResolvedRef == [Owner |-> <<"acme">>, Repo |-> <<"widgets">>, Number |-> 42]

IdleWork ==
    /\ err = ""
    /\ warned = FALSE
    /\ reviews = <<>>
    /\ comments = <<>>
    /\ issueComments = <<>>
    /\ resolvedMap = EmptyMap
    /\ threads = <<>>
    /\ cursor = Null
    /\ commentToThread = EmptyMap
    /\ processedThreads = {}
    /\ handled = 0
    /\ candidates = <<>>
    /\ targets = <<>>
    /\ cleanupResults = <<>>
    /\ results = <<>>
    /\ output = <<>>
    /\ calls = <<>>

IdleClient ==
    /\ pc = "start"
    /\ prArg = <<>>
    /\ env = NoEnv
    /\ prRef = ResolvedRef
    /\ IdleWork

----------------------------------------------------------------------------
(* Specification Spec: one call of Client.GetReviewComments against a pull *)
(* request with any grouping of its review comments into threads.          *)

Init ==
    /\ \E nc \in 0..MaxComments :
          /\ srvComments = [i \in 1..nc |-> ReviewComment(i, 1, Some(3), Some(5), "alice")]
          /\ srvThreads \in ThreadWorlds(nc)
    /\ srvReviews = <<>>
    /\ srvIssueComments = <<>>
    /\ cmd = "GetReviewComments"
    /\ flags = NoFlags
    /\ args = <<>>
    /\ IdleClient

(* c.rest.Get(".../pulls/N/comments", &comments) *)
RestGetComments ==
    /\ cmd = "GetReviewComments"
    /\ pc = "start"
    /\ \E ok \in BOOLEAN :
       /\ calls' = Append(calls, Outcome(Call("GET pulls/comments", Null), ok))
       /\ IF ok
          THEN /\ comments' = srvComments
               /\ pc' = "status"
               /\ err' = err
          ELSE /\ comments' = <<>>
               /\ pc' = "done"
               /\ err' = "failed to get review comments"
    /\ UNCHANGED <<srvVars, runVars, warned, reviews, issueComments,
                   resolvedMap, threads, cursor, workVars>>

(* resolvedMap, err := c.getResolvedStatus(owner, repo, number) *)
QueryResolvedStatus ==
    /\ cmd = "GetReviewComments"
    /\ pc = "status"
    /\ \E ok \in BOOLEAN :
       /\ calls' = Append(calls, Outcome(Call("query GetReviewThreads", Null), ok))
       /\ IF ok
          THEN /\ resolvedMap' = getResolvedStatus
               /\ pc' = "merge"
               /\ warned' = warned
          ELSE /\ resolvedMap' = resolvedMap
               /\ pc' = "done"
               /\ warned' = TRUE
    /\ UNCHANGED <<srvVars, runVars, err, reviews, comments, issueComments,
                   threads, cursor, workVars>>

(* for i := range comments { if resolved, ok := resolvedMap[...] ... } *)
MergeResolvedStatus ==
    /\ cmd = "GetReviewComments"
    /\ pc = "merge"
    /\ comments' = MergeResolved(comments, resolvedMap)
    /\ pc' = "done"
    /\ UNCHANGED <<srvVars, runVars, err, warned, reviews, issueComments,
                   resolvedMap, threads, cursor, workVars, calls>>

Next == RestGetComments \/ QueryResolvedStatus \/ MergeResolvedStatus

Spec == Init /\ [][Next]_vars

(* C1: after GetReviewComments has merged the resolved status, every       *)
(* returned review comment that is a member of a review thread reports     *)
(* that thread's isResolved (so any two comments of one thread agree), for *)
(* any number of threads and of comments in a thread.                      *)
C1_ThreadDecidesResolved ==
    (cmd = "GetReviewComments" /\ pc = "done" /\ err = "" /\ ~warned) =>
        \A i \in DOMAIN comments : \A t \in DOMAIN srvThreads :
            comments[i].ID \in Range(srvThreads[t].CommentIDs) =>
                comments[i].IsResolved = srvThreads[t].IsResolved

(* C2: the comment ID -> isResolved index of getResolvedStatus is built by  *)
(* paging through the review threads until the server reports no next      *)
(* page, so every thread of the PR, also one beyond the first page, has    *)
(* its (served) member comments in the index.                              *)
C2_IndexCoversEveryThread ==
    (cmd = "GetReviewComments" /\ pc = "merge") =>
        /\ ~ReviewThreadsPage(calls[Len(calls)].arg).HasNextPage
        /\ \A t \in DOMAIN srvThreads :
              \A id \in Range(ThreadNode(srvThreads[t]).Comments) :
                  id \in DOMAIN resolvedMap /\ resolvedMap[id] = srvThreads[t].IsResolved

----------------------------------------------------------------------------
(* Specification SpecOutdated: ReviewComment.IsOutdated applied to one     *)
(* review comment whose nullable and commit fields take every combination. *)

PositionValues == {Null, Some(0), Some(3)}
LineValues == {Null, Some(0), Some(5)}

InitOutdated ==
    /\ \E p \in PositionValues, l \in LineValues,
          op \in {Null, Some(3)}, ol \in {Null, Some(5)}, ci \in {"c1", "c2"}, oci \in {"c1", "c2"} :
          srvComments = << [ReviewComment(1, 1, p, l, "alice") EXCEPT
                               !.OriginalPosition = op, !.OriginalLine = ol,
                               !.CommitID = ci, !.OriginalCommitID = oci] >>
    /\ srvThreads = <<>>
    /\ srvReviews = <<>>
    /\ srvIssueComments = <<>>
    /\ cmd = "IsOutdated"
    /\ flags = NoFlags
    /\ args = <<>>
    /\ IdleClient

(* outdated := c.IsOutdated() *)
CallIsOutdated ==
    /\ cmd = "IsOutdated"
    /\ pc = "start"
    /\ comments' = srvComments
    /\ output' = <<IsOutdated(srvComments[1])>>
    /\ pc' = "done"
    /\ UNCHANGED <<srvVars, runVars, err, warned, reviews, issueComments,
                   resolvedMap, threads, cursor, loopVars, results, calls>>

NextOutdated == CallIsOutdated

SpecOutdated == InitOutdated /\ [][NextOutdated]_vars

(* C3: IsOutdated() is true iff position is null or line is null;          *)
(* position=null,line=5 gives true, position=3,line=5 gives false; no      *)
(* other field influences the result.                                      *)
C3_OutdatedIffPositionOrLineNull ==
    (cmd = "IsOutdated" /\ pc = "done") =>
        /\ output[1] = (comments[1].Position = Null \/ comments[1].Line = Null)
        /\ (comments[1].Position = Null /\ comments[1].Line = Some(5)) => output[1] = TRUE
        /\ (comments[1].Position = Some(3) /\ comments[1].Line = Some(5)) => output[1] = FALSE

C3_Witness ==
    /\ cmd = "IsOutdated" /\ pc = "done"
    /\ comments[1].Position = Null /\ comments[1].Line = Some(5)
    /\ comments[1].OriginalPosition = Some(3) /\ comments[1].OriginalLine = Some(5)
    /\ output = <<TRUE>>

----------------------------------------------------------------------------
(* Specification SpecList: one run of `list` (cmd/list.go).                *)

MaxListComments == 2
MaxIssueComments == 1

(* --review-id, --outdated, --resolved, --all, --type.  The string flags   *)
(* take their documented values; --type also an undocumented one.          *)
ListFlags ==
    [ReviewID : 0..2, Outdated : {"", "true", "false"},
     Resolved : {"", "true", "false"}, All : BOOLEAN,
     CommentType : {"", "review", "issue", "other"}]

KeepReviewComment_NoDefaultHide(c, f) ==
    /\ ~(f.ReviewID # 0 /\ c.PullRequestReviewID # f.ReviewID)
    /\ (f.Outdated # "" =>
           /\ ~(f.Outdated = "true" /\ ~IsOutdated(c))
           /\ ~(f.Outdated = "false" /\ IsOutdated(c)))
    /\ (~f.All =>
           (f.Resolved # "" =>
               /\ ~(f.Resolved = "true" /\ ~c.IsResolved)
               /\ ~(f.Resolved = "false" /\ c.IsResolved)))

KeepReviewComment_ResolvedUnderAll(c, f) ==
    /\ ~(f.ReviewID # 0 /\ c.PullRequestReviewID # f.ReviewID)
    /\ (f.Outdated # "" =>
           /\ ~(f.Outdated = "true" /\ ~IsOutdated(c))
           /\ ~(f.Outdated = "false" /\ IsOutdated(c)))
    /\ IF f.Resolved # ""
       THEN /\ ~(f.Resolved = "true" /\ ~c.IsResolved)
            /\ ~(f.Resolved = "false" /\ c.IsResolved)
       ELSE f.All \/ ~c.IsResolved

(* The loop body of filterReviewComments: FALSE where the code continues. *)
KeepReviewComment(c, f) ==
    /\ ~(f.ReviewID # 0 /\ c.PullRequestReviewID # f.ReviewID)
    /\ (f.Outdated # "" =>
           /\ ~(f.Outdated = "true" /\ ~IsOutdated(c))
           /\ ~(f.Outdated = "false" /\ IsOutdated(c)))
    /\ (~f.All =>
           IF f.Resolved # ""
           THEN /\ ~(f.Resolved = "true" /\ ~c.IsResolved)
                /\ ~(f.Resolved = "false" /\ c.IsResolved)
           ELSE ~c.IsResolved)

RECURSIVE filterReviewComments_Reversed(_, _)
filterReviewComments_Reversed(cs, f) ==
    IF cs = <<>> THEN <<>>
    ELSE filterReviewComments_Reversed(Tail(cs), f)
         \o (IF KeepReviewComment(Head(cs), f) THEN <<Head(cs)>> ELSE <<>>)

RECURSIVE filterReviewComments(_, _)
filterReviewComments(cs, f) ==
    IF cs = <<>> THEN <<>>
    ELSE (IF KeepReviewComment(Head(cs), f) THEN <<Head(cs)>> ELSE <<>>)
         \o filterReviewComments(Tail(cs), f)

BoolString(b) == IF b THEN "true" ELSE "false"

(* unifiedComment rows built by runList *)
ReviewRow(c) ==
    [Type |-> "review", ID |-> c.ID, Outdated |-> BoolString(IsOutdated(c)),
     Resolved |-> BoolString(c.IsResolved), ReviewID |-> c.PullRequestReviewID]

IssueRow(c) ==
    [Type |-> "issue", ID |-> c.ID, Outdated |-> "", Resolved |-> "", ReviewID |-> 0]

ReviewRows(cs) == [i \in DOMAIN cs |-> ReviewRow(cs[i])]
IssueRows(cs) == [i \in DOMAIN cs |-> IssueRow(cs[i])]

(* A pull request for `list`: every review comment has its own thread, is  *)
(* attached to review 1 or 2, is outdated or not; issue comments have IDs  *)
(* of their own.                                                           *)
InitList ==
    /\ \E nc \in 0..MaxListComments :
          \E rid \in [1..nc -> 1..2], pos \in [1..nc -> {Null, Some(3)}],
             res \in [1..nc -> BOOLEAN] :
             /\ srvComments =
                   [i \in 1..nc |-> ReviewComment(i, rid[i], pos[i], Some(5), "alice")]
             /\ srvThreads = [i \in 1..nc |-> ReviewThread(i, res[i], <<i>>)]
    /\ \E ni \in 0..MaxIssueComments :
          srvIssueComments = [i \in 1..ni |-> IssueComment(10 + i, "bob", i)]
    /\ srvReviews = <<>>
    /\ cmd = "list"
    /\ flags \in ListFlags
    /\ args = <<>>
    /\ IdleClient

(* runList, lines 99-131: the review comments, fetched and filtered *)
ListReviewComments ==
    /\ cmd = "list"
    /\ pc = "start"
    /\ IF flags.CommentType \in {"", "review"}
       THEN \E restOK, gqlOK \in BOOLEAN :
               LET r == GetReviewComments(restOK, gqlOK)
               IN /\ calls' = calls \o r.calls
                  /\ comments' = r.comments
                  /\ warned' = r.warned
                  /\ err' = r.err
                  /\ IF r.err # ""
                     THEN pc' = "done" /\ results' = results
                     ELSE /\ pc' = "issue"
                          /\ results' = results \o
                                ReviewRows(filterReviewComments(r.comments, flags))
       ELSE /\ pc' = "issue"
            /\ UNCHANGED <<calls, comments, warned, err, results>>
    /\ UNCHANGED <<srvVars, runVars, reviews, issueComments, resolvedMap,
                   threads, cursor, loopVars, output>>

(* runList, lines 133-167: the issue comments, then the output *)
ListIssueComments ==
    /\ cmd = "list"
    /\ pc = "issue"
    /\ IF flags.CommentType \in {"", "issue"}
       THEN \E restOK \in BOOLEAN :
               LET r == GetIssueComments(restOK)
               IN /\ calls' = calls \o r.calls
                  /\ issueComments' = r.comments
                  /\ err' = r.err
                  /\ IF r.err # ""
                     THEN UNCHANGED <<results, output>>
                     ELSE /\ results' = results \o IssueRows(r.comments)
                          /\ output' = results'
       ELSE /\ output' = results
            /\ UNCHANGED <<calls, issueComments, err, results>>
    /\ pc' = "done"
    /\ UNCHANGED <<srvVars, runVars, warned, reviews, comments, resolvedMap,
                   threads, cursor, loopVars>>

NextList == ListReviewComments \/ ListIssueComments

SpecList == InitList /\ [][NextList]_vars

ListDone == cmd = "list" /\ pc = "done" /\ err = ""

ShownReviewIDs == {output[i].ID : i \in {j \in DOMAIN output : output[j].Type = "review"}}
FetchedIDs == {comments[i].ID : i \in DOMAIN comments}
FetchedResolvedIDs == {comments[i].ID : i \in {j \in DOMAIN comments : comments[j].IsResolved}}

(* C4: with no review-id, outdated or type filter, `list` shows by default *)
(* exactly the unresolved fetched review comments, with --all every one,   *)
(* with --resolved=true exactly the resolved ones and with                 *)
(* --resolved=false exactly the unresolved ones.                           *)
C4_ListResolvedFilter ==
    (ListDone /\ flags.ReviewID = 0 /\ flags.Outdated = "" /\ flags.CommentType = "") =>
        /\ (~flags.All /\ flags.Resolved = "") => ShownReviewIDs = FetchedIDs \ FetchedResolvedIDs
        /\ flags.All => ShownReviewIDs = FetchedIDs
        /\ (~flags.All /\ flags.Resolved = "true") => ShownReviewIDs = FetchedResolvedIDs
        /\ (~flags.All /\ flags.Resolved = "false") => ShownReviewIDs = FetchedIDs \ FetchedResolvedIDs

C4_Witness ==
    /\ ListDone /\ flags.ReviewID = 0 /\ flags.Outdated = "" /\ flags.CommentType = ""
    /\ ~flags.All /\ flags.Resolved = ""
    /\ Len(comments) = 2 /\ comments[1].IsResolved /\ ~comments[2].IsResolved
    /\ ShownReviewIDs = {2}

(* C6: the output of `list` is the fetched review comments (when --type is *)
(* empty or "review") that pass the review-id, outdated and resolved       *)
(* predicates together, in fetched order, followed by every fetched issue  *)
(* comment (when --type is empty or "issue").                              *)
C6_Passes(c) ==
    /\ flags.ReviewID = 0 \/ c.PullRequestReviewID = flags.ReviewID
    /\ flags.Outdated = "" \/ flags.Outdated = BoolString(IsOutdated(c))
    /\ \/ flags.All
       \/ flags.Resolved = "" /\ ~c.IsResolved
       \/ flags.Resolved # "" /\ flags.Resolved = BoolString(c.IsResolved)

----------------------------------------------------------------------------
(* Specification SpecTree: one run of `tree`.                              *)

MaxTreeReviews == 2

(* sort.Slice(x, less): some permutation of s in which no element is less  *)
(* than an earlier one (the sort is not stable).                           *)
(* key[i] is the time the less function reads from s[i].                   *)
SortedBy(s, key) ==
    { [i \in DOMAIN s |-> s[f[i]]] :
        f \in { g \in [DOMAIN s -> DOMAIN s] :
                  /\ \A i, j \in DOMAIN s : i # j => g[i] # g[j]
                  /\ \A i, j \in DOMAIN s : i < j => ~(key[g[j]] < key[g[i]]) } }

SubmittedAtOf(rwcs) == [i \in DOMAIN rwcs |-> rwcs[i].Review.SubmittedAt]
CreatedAtOf(cs) == [i \in DOMAIN cs |-> cs[i].CreatedAt]

CommentsByReview_All(cs, rid, all) ==
    LET idx == SetToSeq({i \in DOMAIN cs : cs[i].PullRequestReviewID = rid})
    IN [k \in DOMAIN idx |-> cs[idx[k]]]

(* commentsByReview[rid] of runTree: the comments of review rid, in        *)
(* fetched order, resolved ones skipped unless --all.                      *)
CommentsByReview(cs, rid, all) ==
    LET idx == SetToSeq({i \in DOMAIN cs :
                           /\ ~(~all /\ cs[i].IsResolved)
                           /\ cs[i].PullRequestReviewID = rid})
    IN [k \in DOMAIN idx |-> cs[idx[k]]]

(* reviewsWithComments of runTree, before sorting *)
ReviewsWithComments(rs, cs, all) ==
    [i \in DOMAIN rs |->
        [Review |-> rs[i], Comments |-> CommentsByReview(cs, rs[i].ID, all)]]

(* A pull request for `tree`: up to MaxTreeReviews reviews (IDs 1..),      *)
(* review comments attached to review 1..MaxTreeReviews + 1 (so possibly   *)
(* to a review that is not served), each in a thread of its own.           *)
InitTree ==
    /\ \E nr \in 0..MaxTreeReviews :
          \E at \in [1..nr -> 1..2] :
             srvReviews = [i \in 1..nr |-> Review(20 + i, "carol", at[i])]
    /\ \E nc \in 0..MaxListComments :
          \E rid \in [1..nc -> 1..(MaxTreeReviews + 1)], res \in [1..nc -> BOOLEAN] :
             /\ srvComments =
                   [i \in 1..nc |-> ReviewComment(i, 20 + rid[i], Some(3), Some(5), "alice")]
             /\ srvThreads = [i \in 1..nc |-> ReviewThread(i, res[i], <<i>>)]
    /\ \E ni \in 0..MaxIssueComments :
          \E at \in [1..ni -> 1..2] :
             srvIssueComments = [i \in 1..ni |-> IssueComment(10 + i, "bob", at[i])]
    /\ cmd = "tree"
    /\ flags \in [All : BOOLEAN]
    /\ args = <<>>
    /\ IdleClient

(* pr, err := client.GetPullRequest(...) *)
TreeGetPullRequest ==
    /\ cmd = "tree"
    /\ pc = "start"
    /\ \E ok \in BOOLEAN :
       /\ calls' = Append(calls, Outcome(Call("GET pulls", Null), ok))
       /\ IF ok THEN pc' = "reviews" /\ err' = err
          ELSE pc' = "done" /\ err' = "failed to get pull request"
    /\ UNCHANGED <<srvVars, runVars, warned, fetchVars, workVars>>

(* reviews, err := client.GetReviews(...) *)
TreeGetReviews ==
    /\ cmd = "tree"
    /\ pc = "reviews"
    /\ \E ok \in BOOLEAN :
          LET r == GetReviews(ok)
          IN /\ calls' = calls \o r.calls
             /\ reviews' = r.reviews
             /\ err' = r.err
             /\ pc' = IF r.err # "" THEN "done" ELSE "comments"
    /\ UNCHANGED <<srvVars, runVars, warned, comments, issueComments,
                   resolvedMap, threads, cursor, workVars>>

(* reviewComments, err := client.GetReviewComments(...) *)
TreeGetReviewComments ==
    /\ cmd = "tree"
    /\ pc = "comments"
    /\ \E restOK, gqlOK \in BOOLEAN :
          LET r == GetReviewComments(restOK, gqlOK)
          IN /\ calls' = calls \o r.calls
             /\ comments' = r.comments
             /\ warned' = r.warned
             /\ err' = r.err
             /\ pc' = IF r.err # "" THEN "done" ELSE "issue"
    /\ UNCHANGED <<srvVars, runVars, reviews, issueComments,
                   resolvedMap, threads, cursor, workVars>>

(* issueComments, err := client.GetIssueComments(...) *)
TreeGetIssueComments ==
    /\ cmd = "tree"
    /\ pc = "issue"
    /\ \E ok \in BOOLEAN :
          LET r == GetIssueComments(ok)
          IN /\ calls' = calls \o r.calls
             /\ issueComments' = r.comments
             /\ err' = r.err
             /\ pc' = IF r.err # "" THEN "done" ELSE "render"
    /\ UNCHANGED <<srvVars, runVars, warned, reviews, comments,
                   resolvedMap, threads, cursor, workVars>>

(* runTree, lines 235-271: group, sort, print *)
TreeRender ==
    /\ cmd = "tree"
    /\ pc = "render"
    /\ \E rs \in SortedBy(ReviewsWithComments(reviews, comments, flags.All),
                          SubmittedAtOf(ReviewsWithComments(reviews, comments, flags.All))),
          ics \in SortedBy(issueComments, CreatedAtOf(issueComments)) :
          /\ issueComments' = ics
          /\ output' = [Reviews |-> rs, IssueComments |-> ics]
    /\ pc' = "done"
    /\ UNCHANGED <<srvVars, runVars, err, warned, reviews, comments,
                   resolvedMap, threads, cursor, loopVars, results, calls>>

NextTree ==
    \/ TreeGetPullRequest
    \/ TreeGetReviews
    \/ TreeGetReviewComments
    \/ TreeGetIssueComments
    \/ TreeRender

SpecTree == InitTree /\ [][NextTree]_vars

TreeDone == cmd = "tree" /\ pc = "done" /\ err = ""

(* The (review ID, comment) pairs printed under the reviews of the tree. *)
TreeShown ==
    UNION { { <<output.Reviews[i].Review.ID, output.Reviews[i].Comments[k]>> :
                k \in DOMAIN output.Reviews[i].Comments } :
            i \in DOMAIN output.Reviews }

FetchedReviewIDs == {reviews[i].ID : i \in DOMAIN reviews}

(* C5: by default `tree` shows no resolved review comment under any review *)
(* and shows every unresolved review comment whose review was fetched;     *)
(* with --all it shows every review comment whose review was fetched.      *)
(* Issue comments are shown in both modes.                                 *)
C5_TreeHidesResolved ==
    TreeDone =>
        /\ TreeShown =
              { <<c.PullRequestReviewID, c>> :
                  c \in { d \in Range(comments) :
                            /\ d.PullRequestReviewID \in FetchedReviewIDs
                            /\ (flags.All \/ ~d.IsResolved) } }
        /\ ~flags.All => \A p \in TreeShown : ~p[2].IsResolved
        /\ Len(output.IssueComments) = Len(srvIssueComments)
        /\ Range(output.IssueComments) = Range(srvIssueComments)

C5_Witness ==
    /\ TreeDone /\ ~flags.All
    /\ Len(reviews) = 2 /\ Len(comments) = 2 /\ Len(issueComments) = 1
    /\ comments[1].PullRequestReviewID = reviews[1].ID /\ comments[1].IsResolved
    /\ comments[2].PullRequestReviewID = reviews[1].ID /\ ~comments[2].IsResolved
    /\ TreeShown = {<<reviews[1].ID, comments[2]>>}

----------------------------------------------------------------------------
(* internal/github client: GetReviewThreads, one loop iteration at a time. *)

ThreadsOfNodes_Unresolved(nodes) ==
    [i \in DOMAIN nodes |->
        [ID |-> nodes[i].ID, IsResolved |-> FALSE,
         CommentIDs |-> nodes[i].Comments]]

(* ReviewThread{ID: node.ID, IsResolved: node.IsResolved, CommentIDs: ...} *)
ThreadsOfNodes(nodes) ==
    [i \in DOMAIN nodes |->
        [ID |-> nodes[i].ID, IsResolved |-> nodes[i].IsResolved,
         CommentIDs |-> nodes[i].Comments]]

----------------------------------------------------------------------------
(* Specification SpecResolve: one run of `resolve` (cmd/resolve.go): the   *)
(* thread index, the per-ID loop and, unless --undo, the auto-cleanup.     *)

MaxArgs == 2

(* Every way nc comments (IDs 1..nc) are cut into consecutive non-empty    *)
(* threads, each thread resolved or not.                                   *)
ThreadBlocks(nc) ==
    UNION { { [i \in 1..nt |->
                 ReviewThread(i, r[i], SetToSeq({c \in 1..nc : f[c] = i}))]
              : f \in {g \in [1..nc -> 1..nt] :
                         /\ \A i \in 1..nt : \E c \in 1..nc : g[c] = i
                         /\ \A c, e \in 1..nc : c < e => g[c] <= g[e]},
                r \in [1..nt -> BOOLEAN] }
            : nt \in 0..Min(nc, MaxThreads) }

(* Sequences of 1..MaxArgs comment IDs out of ids. *)
ArgLists(ids) == UNION { [1..n -> ids] : n \in 1..MaxArgs }

(* Three reviews; review 23 has no inline comment, the comments alternate  *)
(* between reviews 21 and 22.                                              *)
ResolveReviews == [i \in 1..3 |-> Review(20 + i, "carol", i)]
ResolveReviewOf(c) == 21 + (c % 2)

(* The comment IDs are valid integers (strconv.ParseInt succeeds); ID      *)
(* nc + 1 is the ID of no review comment.                                  *)
InitResolve ==
    /\ \E nc \in 0..MaxComments :
          /\ srvComments = [i \in 1..nc |->
                ReviewComment(i, ResolveReviewOf(i), Some(3), Some(5), "alice")]
          /\ srvThreads \in ThreadBlocks(nc)
          /\ args \in ArgLists(1..(nc + 1))
    /\ srvReviews = ResolveReviews
    /\ srvIssueComments = <<>>
    /\ cmd = "resolve"
    /\ flags \in [Undo : BOOLEAN]
    /\ IdleClient

ActionOf(f) == IF f.Undo THEN "unresolved" ELSE "resolved"

MorePages_Never(page) == FALSE

(* GetReviewThreads: if !PageInfo.HasNextPage { break } *)
MorePages(page) == page.HasNextPage

(* GetReviewThreads: one iteration of the paging loop *)
ResolveGetThreadsPage ==
    /\ cmd = "resolve"
    /\ pc = "start"
    /\ \E ok \in BOOLEAN :
       /\ calls' = Append(calls, Outcome(Call("query GetReviewThreadsWithID", cursor), ok))
       /\ IF ~ok
          THEN /\ threads' = <<>>
               /\ err' = "get review threads"
               /\ pc' = "done"
               /\ cursor' = cursor
          ELSE LET page == ReviewThreadsPage(cursor)
               IN /\ threads' = threads \o ThreadsOfNodes(page.Nodes)
                  /\ err' = err
                  /\ IF MorePages(page)
                     THEN cursor' = Some(page.EndCursor) /\ pc' = pc
                     ELSE cursor' = cursor /\ pc' = "index"
    /\ UNCHANGED <<srvVars, runVars, warned, reviews, comments, issueComments,
                   resolvedMap, workVars>>

(* commentToThread[cid] = t.ID for the comments of one thread *)
PutThread(m, t) ==
    [id \in DOMAIN m \cup Range(t.CommentIDs) |->
        IF id \in Range(t.CommentIDs) THEN t.ID ELSE m[id]]

RECURSIVE CommentToThread(_, _)
CommentToThread(ts, m) ==
    IF ts = <<>> THEN m
    ELSE CommentToThread(Tail(ts), PutThread(m, Head(ts)))

(* runResolve, lines 94-107 *)
ResolveBuildIndex ==
    /\ cmd = "resolve"
    /\ pc = "index"
    /\ commentToThread' = CommentToThread(threads, EmptyMap)
    /\ processedThreads' = {}
    /\ results' = <<>>
    /\ handled' = 0
    /\ pc' = "loop"
    /\ UNCHANGED <<srvVars, runVars, err, warned, fetchVars, candidates, targets,
                   cleanupResults, output, calls>>

ResolveResult(commentID, threadID, action, success, skipped, error) ==
    [CommentID |-> commentID, ThreadID |-> threadID, Action |-> action,
     Success |-> success, Skipped |-> skipped, Error |-> error]

NotFoundResult_Success(commentID, action) ==
    ResolveResult(commentID, Null, action, TRUE, FALSE, "")

(* lines 112-117 *)
NotFoundResult(commentID, action) ==
    ResolveResult(commentID, Null, action, FALSE, FALSE,
                  "comment not found in any review thread")

AlreadyProcessed_Never(threadID, processed) == FALSE

(* line 121: if processedThreads[threadID] *)
AlreadyProcessed(threadID, processed) == threadID \in processed

(* The effect of a resolveReviewThread / unresolveReviewThread mutation    *)
(* that succeeded.                                                         *)
SetThreadResolved(ts, threadID, resolve) ==
    [i \in DOMAIN ts |->
        IF ts[i].ID = threadID THEN [ts[i] EXCEPT !.IsResolved = resolve] ELSE ts[i]]

(* runResolve, lines 109-150: one iteration of the loop over commentIDs *)
ResolveOne ==
    /\ cmd = "resolve"
    /\ pc = "loop"
    /\ handled < Len(args)
    /\ handled' = handled + 1
    /\ LET commentID == args[handled + 1]
       IN IF commentID \notin DOMAIN commentToThread
          THEN /\ results' = Append(results, NotFoundResult(commentID, ActionOf(flags)))
               /\ UNCHANGED <<processedThreads, calls, srvThreads>>
          ELSE LET threadID == commentToThread[commentID]
               IN IF AlreadyProcessed(threadID, processedThreads)
                  THEN /\ results' = Append(results,
                             ResolveResult(commentID, threadID, ActionOf(flags), TRUE, TRUE, ""))
                       /\ UNCHANGED <<processedThreads, calls, srvThreads>>
                  ELSE /\ processedThreads' = processedThreads \cup {threadID}
                       /\ \E ok \in BOOLEAN :
                          /\ calls' = Append(calls, Outcome(Call(IF flags.Undo THEN "unresolveReviewThread"
                                  ELSE "resolveReviewThread", threadID), ok))
                          /\ /\ srvThreads' = IF ok
                                              THEN SetThreadResolved(srvThreads, threadID, ~flags.Undo)
                                              ELSE srvThreads
                             /\ results' = Append(results,
                                   ResolveResult(commentID, threadID, ActionOf(flags), ok, FALSE,
                                                 IF ok THEN ""
                                                 ELSE IF flags.Undo THEN "failed to unresolve thread"
                                                 ELSE "failed to resolve thread"))
    /\ UNCHANGED <<srvReviews, srvComments, srvIssueComments, runVars, pc, err,
                   warned, fetchVars, commentToThread, candidates, targets,
                   cleanupResults, output>>

(* The loop over commentIDs is over: auto-cleanup unless --undo.           *)
ResolveLoopEnd ==
    /\ cmd = "resolve"
    /\ pc = "loop"
    /\ handled = Len(args)
    /\ pc' = IF flags.Undo THEN "print" ELSE "cleanup"
    /\ UNCHANGED <<srvVars, runVars, err, warned, fetchVars, workVars, calls>>

(* performAutoCleanup, lines 370-373: GetReviews; an error returns nil *)
AutoCleanupGetReviews ==
    /\ cmd = "resolve"
    /\ pc = "cleanup"
    /\ \E ok \in BOOLEAN :
          LET r == GetReviews(ok)
          IN /\ reviews' = r.reviews
             /\ calls' = calls \o r.calls
             /\ pc' = IF r.err = "" THEN "cleanupComments" ELSE "print"
    /\ cleanupResults' = <<>>
    /\ UNCHANGED <<srvVars, runVars, err, warned, comments, issueComments,
                   resolvedMap, threads, cursor, commentToThread,
                   processedThreads, handled, candidates, targets, results, output>>

(* performAutoCleanup, lines 375-378: GetReviewComments; an error returns  *)
(* nil                                                                     *)
AutoCleanupGetReviewComments ==
    /\ cmd = "resolve"
    /\ pc = "cleanupComments"
    /\ \E restOK, gqlOK \in BOOLEAN :
          LET r == GetReviewComments(restOK, gqlOK)
          IN /\ comments' = r.comments
             /\ warned' = (warned \/ r.warned)
             /\ calls' = calls \o r.calls
             /\ pc' = IF r.err = "" THEN "cleanupLoop" ELSE "print"
    /\ handled' = 0
    /\ UNCHANGED <<srvVars, runVars, err, reviews, issueComments, resolvedMap,
                   threads, cursor, commentToThread, processedThreads,
                   candidates, targets, cleanupResults, results, output>>

(* commentsByReview[reviewID] *)
CommentsOfReview(cs, reviewID) ==
    SelectSeq(cs, LAMBDA c : c.PullRequestReviewID = reviewID)

AllResolved(cs) == \A i \in DOMAIN cs : cs[i].IsResolved

ReviewerID(r) == IF r.Login # "" THEN r.Login ELSE "unknown"

(* performAutoCleanup, lines 387-424: one iteration of the loop over the   *)
(* reviews                                                                 *)
AutoCleanupOne ==
    /\ cmd = "resolve"
    /\ pc = "cleanupLoop"
    /\ handled < Len(reviews)
    /\ handled' = handled + 1
    /\ LET r  == reviews[handled + 1]
           cs == CommentsOfReview(comments, r.ID)
       IN IF Len(cs) = 0 \/ ~AllResolved(cs)
          THEN UNCHANGED <<cleanupResults, calls>>
          ELSE \E ok \in BOOLEAN :
                  /\ calls' = Append(calls,
                        Outcome(Call("minimizeComment", <<r.NodeID, "RESOLVED">>), ok))
                  /\ cleanupResults' = Append(cleanupResults,
                        [ReviewID |-> r.ID, ReviewerID |-> ReviewerID(r),
                         Minimized |-> ok,
                         Error |-> IF ok THEN "" ELSE "failed to minimize comment"])
    /\ UNCHANGED <<srvVars, runVars, pc, err, warned, fetchVars,
                   commentToThread, processedThreads, candidates, targets, results,
                   output>>

AutoCleanupEnd ==
    /\ cmd = "resolve"
    /\ pc = "cleanupLoop"
    /\ handled = Len(reviews)
    /\ pc' = "print"
    /\ UNCHANGED <<srvVars, runVars, err, warned, fetchVars, workVars, calls>>

(* runResolve, lines 352-366: the results and the cleanup list are         *)
(* written; the command returns nil.                                       *)
ResolvePrint ==
    /\ cmd = "resolve"
    /\ pc = "print"
    /\ output' = [Results |-> results, Cleanup |-> cleanupResults]
    /\ pc' = "done"
    /\ UNCHANGED <<srvVars, runVars, err, warned, fetchVars, loopVars,
                   results, calls>>

NextResolve ==
    \/ ResolveGetThreadsPage
    \/ ResolveBuildIndex
    \/ ResolveOne
    \/ ResolveLoopEnd
    \/ AutoCleanupGetReviews
    \/ AutoCleanupGetReviewComments
    \/ AutoCleanupOne
    \/ AutoCleanupEnd
    \/ ResolvePrint

SpecResolve == InitResolve /\ [][NextResolve]_vars

----------------------------------------------------------------------------
(* Properties of `resolve`.                                                *)

IsThreadMutation(c) == c.op \in {"resolveReviewThread", "unresolveReviewThread"}

ThreadMutations == SelectSeq(calls, IsThreadMutation)

(* The loop over the requested IDs has run to its end. *)
ResolveLoopOver ==
    /\ cmd = "resolve"
    /\ err = ""
    /\ \/ pc \in {"cleanup", "cleanupComments", "cleanupLoop", "print", "done"}
       \/ pc = "loop" /\ handled = Len(args)

(* The k-th requested ID is the first one that maps to its thread. *)
FirstOfThread(k) ==
    /\ args[k] \in DOMAIN commentToThread
    /\ \A j \in 1..(k - 1) :
          args[j] \in DOMAIN commentToThread
             => commentToThread[args[j]] # commentToThread[args[k]]

(* The k-th requested ID maps to the thread of an earlier requested ID. *)
LaterOfThread(k) ==
    /\ args[k] \in DOMAIN commentToThread
    /\ \E j \in 1..(k - 1) :
          /\ args[j] \in DOMAIN commentToThread
          /\ commentToThread[args[j]] = commentToThread[args[k]]

(* C7: in one resolve run no thread receives two resolve/unresolve         *)
(* mutation calls; the first requested ID of a thread has a result that is *)
(* not skipped and the thread has its mutation call, every later requested *)
(* ID of the same thread has a result marked skipped; once the loop is     *)
(* over the number of mutation calls equals the number of distinct threads *)
(* among the requested IDs found in the index.                             *)
C7_OneMutationPerThread ==
    cmd = "resolve" =>
       /\ \A i, j \in DOMAIN ThreadMutations :
             i # j => ThreadMutations[i].arg # ThreadMutations[j].arg
       /\ \A k \in DOMAIN results :
             /\ FirstOfThread(k) =>
                   /\ ~results[k].Skipped
                   /\ \E i \in DOMAIN ThreadMutations :
                         ThreadMutations[i].arg = commentToThread[args[k]]
             /\ LaterOfThread(k) => results[k].Skipped /\ results[k].Success
       /\ ResolveLoopOver =>
             Len(ThreadMutations) =
                Cardinality({commentToThread[a] :
                               a \in Range(args) \cap DOMAIN commentToThread})

(* C7 witness: two requested IDs of one thread, the run is over, one       *)
(* mutation call was made and the second result is skipped.                *)
C7_Witness ==
    /\ cmd = "resolve"
    /\ pc = "done"
    /\ Len(args) = 2
    /\ args[1] # args[2]
    /\ LaterOfThread(2)
    /\ Len(ThreadMutations) = 1
    /\ Len(results) = 2
    /\ results[2].Skipped

(* C10: once the loop of a resolve run is over the results hold exactly    *)
(* one entry per requested ID, in request order; an ID that is in no       *)
(* review thread has a failed entry with the error "comment not found in   *)
(* any review thread" and caused no mutation call (the mutation calls are  *)
(* as many as the entries that are neither not-found nor skipped); while   *)
(* the loop runs the entries so far are those of the IDs handled so far,   *)
(* whatever failed among them.                                             *)
C10_OneResultPerRequestedID ==
    (cmd = "resolve" /\ pc # "start" /\ pc # "index" /\ err = "") =>
       /\ ResolveLoopOver => Len(results) = Len(args)
       /\ pc = "loop" => Len(results) = handled
       /\ Len(results) <= Len(args)
       /\ \A k \in DOMAIN results :
             /\ results[k].CommentID = args[k]
             /\ ThreadOf(args[k]) = 0 =>
                   /\ ~results[k].Success
                   /\ results[k].Error = "comment not found in any review thread"
                   /\ results[k].ThreadID = Null
       /\ Len(ThreadMutations) =
             Cardinality({k \in DOMAIN results :
                            results[k].ThreadID # Null /\ ~results[k].Skipped})

(* C10 witness: the mutation for the first requested ID failed, the second *)
(* requested ID is in no review thread; the run is over with both entries  *)
(* and the one mutation call.                                              *)
C10_Witness ==
    /\ cmd = "resolve"
    /\ pc = "done"
    /\ Len(args) = 2
    /\ Len(results) = 2
    /\ ~results[1].Success /\ results[1].ThreadID # Null
    /\ ThreadOf(args[2]) = 0
    /\ results[2].Error = "comment not found in any review thread"
    /\ Len(ThreadMutations) = 1

----------------------------------------------------------------------------
(* Specification SpecBatch: one run of a batch command, `cleanup`          *)
(* (cmd/cleanup.go) or `hide --author` (hideBatch).                        *)

MaxBatchReviews == 3

(* ReviewCleanupCandidate *)
Candidate(r, total, resolvedCount, canMinimize, reason) ==
    [Review |-> r, TotalCount |-> total, ResolvedCount |-> resolvedCount,
     CanMinimize |-> canMinimize, Reason |-> reason]

ClassifyCandidate_Vacuous(r, total, resolvedCount) ==
    IF resolvedCount < total
    THEN Candidate(r, total, resolvedCount, FALSE, "has unresolved comments")
    ELSE Candidate(r, total, resolvedCount, TRUE, "")

(* identifyCleanupCandidates, lines 171-185 *)
ClassifyCandidate(r, total, resolvedCount) ==
    IF total = 0
    THEN Candidate(r, total, resolvedCount, FALSE, "no inline comments")
    ELSE IF resolvedCount < total
    THEN Candidate(r, total, resolvedCount, FALSE, "has unresolved comments")
    ELSE Candidate(r, total, resolvedCount, TRUE, "")

identifyCleanupCandidates(rs, cs) ==
    [i \in DOMAIN rs |->
        LET reviewComments == CommentsOfReview(cs, rs[i].ID)
            resolved == SelectSeq(reviewComments, LAMBDA c : c.IsResolved)
        IN ClassifyCandidate(rs[i], Len(reviewComments), Len(resolved))]

(* strings.ToLower on the logins in use *)
ToLower(s) ==
    CASE s = "Alice" -> "alice"
      [] s = "Bob"   -> "bob"
      [] OTHER       -> s

CleanupFlags == [DryRun : BOOLEAN, ReviewID : {0, 21, 29}]

HideFlags ==
    { [Undo |-> u, DryRun |-> dr, Author |-> a,
       Classifier |-> IF u THEN "" ELSE "RESOLVED"] :
      u \in BOOLEAN, dr \in BOOLEAN, a \in {"alice", "Bob", ""} }

(* cleanup: 1..MaxBatchReviews reviews (IDs 21, 22, ...), up to            *)
(* MaxComments review comments, each of one of the reviews and in a thread *)
(* of its own, resolved or not.                                            *)
InitCleanup ==
    /\ cmd = "cleanup"
    /\ flags \in CleanupFlags
    /\ args = <<>>
    /\ \E nr \in 1..MaxBatchReviews, nc \in 0..MaxComments :
          /\ srvReviews = [i \in 1..nr |-> Review(20 + i, "carol", i)]
          /\ \E rv \in [1..nc -> 1..nr], res \in [1..nc -> BOOLEAN] :
                /\ srvComments = [i \in 1..nc |->
                      ReviewComment(i, 20 + rv[i], Some(3), Some(5), "alice")]
                /\ srvThreads = [i \in 1..nc |-> ReviewThread(i, res[i], <<i>>)]
    /\ srvIssueComments = <<>>
    /\ IdleClient

(* hide --author: up to MaxComments review comments and MaxIssueComments   *)
(* issue comments by "Alice" or "bob".                                     *)
InitHide ==
    /\ cmd = "hide"
    /\ flags \in HideFlags
    /\ args = <<>>
    /\ srvReviews = <<>>
    /\ srvThreads = <<>>
    /\ \E nc \in 0..MaxComments, ni \in 0..MaxIssueComments :
          /\ \E lg \in [1..nc -> {"Alice", "bob"}] :
                srvComments = [i \in 1..nc |->
                      ReviewComment(i, 21, Some(3), Some(5), lg[i])]
          /\ \E lg \in [1..ni -> {"Alice", "bob"}] :
                srvIssueComments = [i \in 1..ni |-> IssueComment(10 + i, lg[i], i)]
    /\ IdleClient

InitBatch == InitCleanup \/ InitHide

(* runCleanup, lines 90-93 *)
CleanupGetReviews ==
    /\ cmd = "cleanup"
    /\ pc = "start"
    /\ \E ok \in BOOLEAN :
          LET r == GetReviews(ok)
          IN /\ reviews' = r.reviews
             /\ calls' = calls \o r.calls
             /\ err' = r.err
             /\ pc' = IF r.err = "" THEN "comments" ELSE "done"
    /\ UNCHANGED <<srvVars, runVars, warned, comments, issueComments,
                   resolvedMap, threads, cursor, workVars>>

(* runCleanup, lines 95-98 *)
CleanupGetReviewComments ==
    /\ cmd = "cleanup"
    /\ pc = "comments"
    /\ \E restOK, gqlOK \in BOOLEAN :
          LET r == GetReviewComments(restOK, gqlOK)
          IN /\ comments' = r.comments
             /\ warned' = r.warned
             /\ calls' = calls \o r.calls
             /\ err' = r.err
             /\ pc' = IF r.err = "" THEN "identify" ELSE "done"
    /\ UNCHANGED <<srvVars, runVars, reviews, issueComments, resolvedMap,
                   threads, cursor, workVars>>

(* runCleanup, line 100 *)
CleanupIdentify ==
    /\ cmd = "cleanup"
    /\ pc = "identify"
    /\ candidates' = identifyCleanupCandidates(reviews, comments)
    /\ pc' = "filter"
    /\ UNCHANGED <<srvVars, runVars, err, warned, fetchVars, commentToThread,
                   processedThreads, handled, targets, cleanupResults,
                   results, output, calls>>

CleanupOutput_NoSkipped(dryRun, minimized, failed, skipped) ==
    [DryRun |-> dryRun, Minimized |-> minimized, Failed |-> failed,
     Skipped |-> <<>>]

(* type CleanupOutput *)
CleanupOutput(dryRun, minimized, failed, skipped) ==
    [DryRun |-> dryRun, Minimized |-> minimized, Failed |-> failed,
     Skipped |-> skipped]

AfterSplit_AlwaysMinimize(dryRun) == "minimize"

(* runCleanup, line 128: if !cleanupDryRun *)
AfterSplit(dryRun) == IF dryRun THEN "print" ELSE "minimize"

FilterByReviewID_Unfiltered(cands, reviewID) == cands

(* runCleanup, lines 102-108: the candidates of review --review-id *)
FilterByReviewID(cands, reviewID) ==
    IF reviewID # 0
    THEN SelectSeq(cands, LAMBDA c : c.Review.ID = reviewID)
    ELSE cands

(* runCleanup, lines 102-126: --review-id filter, then the split into      *)
(* Minimized and Skipped.                                                  *)
CleanupFilter ==
    /\ cmd = "cleanup"
    /\ pc = "filter"
    /\ LET filtered == FilterByReviewID(candidates, flags.ReviewID)
       IN IF flags.ReviewID # 0 /\ Len(filtered) = 0
          THEN /\ err' = "review with ID not found"
               /\ pc' = "done"
               /\ UNCHANGED <<candidates, output>>
          ELSE /\ candidates' = filtered
               /\ output' = CleanupOutput(flags.DryRun,
                     SelectSeq(filtered, LAMBDA c : c.CanMinimize), <<>>,
                     SelectSeq(filtered, LAMBDA c : ~c.CanMinimize))
               /\ err' = err
               /\ pc' = AfterSplit(flags.DryRun)
    /\ handled' = 0
    /\ results' = <<>>
    /\ UNCHANGED <<srvVars, runVars, warned, fetchVars, commentToThread,
                   processedThreads, targets, cleanupResults, calls>>

RecordFailed_Dropped(failed, c, error) == failed

(* runCleanup, lines 132-135 *)
RecordFailed(failed, c, error) ==
    Append(failed, [c EXCEPT !.CanMinimize = FALSE, !.Reason = error])

(* runCleanup, lines 130-139: one iteration of the loop over               *)
(* output.Minimized; results is the slice `successful`.                    *)
CleanupMinimizeOne ==
    /\ cmd = "cleanup"
    /\ pc = "minimize"
    /\ handled < Len(output.Minimized)
    /\ handled' = handled + 1
    /\ LET c == output.Minimized[handled + 1]
       IN \E ok \in BOOLEAN :
             /\ calls' = Append(calls,
                   Outcome(Call("minimizeComment", <<c.Review.NodeID, "RESOLVED">>), ok))
             /\ IF ok
                THEN /\ results' = Append(results, c)
                     /\ output' = output
                ELSE /\ results' = results
                     /\ output' = [output EXCEPT !.Failed =
                           RecordFailed(output.Failed, c, "failed to minimize comment")]
    /\ UNCHANGED <<srvVars, runVars, pc, err, warned, fetchVars,
                   commentToThread, processedThreads, candidates, targets,
                   cleanupResults>>

(* runCleanup, line 140: output.Minimized = successful *)
CleanupMinimizeEnd ==
    /\ cmd = "cleanup"
    /\ pc = "minimize"
    /\ handled = Len(output.Minimized)
    /\ output' = [output EXCEPT !.Minimized = results]
    /\ pc' = "print"
    /\ UNCHANGED <<srvVars, runVars, err, warned, fetchVars, loopVars,
                   results, calls>>

(* runCleanup, lines 143-150: the output is written, the command returns   *)
(* nil.                                                                    *)
CleanupPrint ==
    /\ cmd = "cleanup"
    /\ pc = "print"
    /\ pc' = "done"
    /\ UNCHANGED <<srvVars, runVars, err, warned, fetchVars, workVars, calls>>

HasAuthor_Always(f) == TRUE

(* runHide, line 820: hideAuthor == "" is an error *)
HasAuthor(f) == f.Author # ""

(* runHide, lines 820-822: no comment ID and no --author *)
HideRequireAuthor ==
    /\ cmd = "hide"
    /\ args = <<>>
    /\ pc = "start"
    /\ ~HasAuthor(flags)
    /\ err' = "batch hide requires --author filter"
    /\ pc' = "done"
    /\ UNCHANGED <<srvVars, runVars, warned, fetchVars, workVars, calls>>

(* hideBatch, lines 873-876 *)
HideGetReviewComments ==
    /\ cmd = "hide"
    /\ args = <<>>
    /\ pc = "start"
    /\ HasAuthor(flags)
    /\ \E restOK, gqlOK \in BOOLEAN :
          LET r == GetReviewComments(restOK, gqlOK)
          IN /\ comments' = r.comments
             /\ warned' = r.warned
             /\ calls' = calls \o r.calls
             /\ err' = r.err
             /\ pc' = IF r.err = "" THEN "issue" ELSE "done"
    /\ UNCHANGED <<srvVars, runVars, reviews, issueComments, resolvedMap,
                   threads, cursor, workVars>>

(* hideBatch, lines 878-881 *)
HideGetIssueComments ==
    /\ cmd = "hide"
    /\ pc = "issue"
    /\ \E ok \in BOOLEAN :
          LET r == GetIssueComments(ok)
          IN /\ issueComments' = r.comments
             /\ calls' = calls \o r.calls
             /\ err' = r.err
             /\ pc' = IF r.err = "" THEN "targets" ELSE "done"
    /\ UNCHANGED <<srvVars, runVars, warned, reviews, comments, resolvedMap,
                   threads, cursor, workVars>>

(* hideResult *)
HideResult(id, nodeID, type, author, success, action, error) ==
    [ID |-> id, NodeID |-> nodeID, Type |-> type, Author |-> author,
     Success |-> success, Action |-> action, Error |-> error]

(* hideBatch, lines 885-907: the comments of the author, review comments   *)
(* first.                                                                  *)
TargetsOf(cs, type, author) ==
    LET mine == SelectSeq(cs, LAMBDA c : ToLower(c.Login) = ToLower(author))
    IN [i \in DOMAIN mine |->
          HideResult(mine[i].ID, mine[i].NodeID, type, mine[i].Login, FALSE, "", "")]

(* hideBatch, lines 883-915 *)
HideCollectTargets ==
    /\ cmd = "hide"
    /\ pc = "targets"
    /\ targets' = TargetsOf(comments, "review", flags.Author)
                     \o TargetsOf(issueComments, "issue", flags.Author)
    /\ handled' = 0
    /\ results' = <<>>
    /\ output' = <<>>
    /\ pc' = IF Len(targets') = 0 THEN "done" ELSE "loop"
    /\ UNCHANGED <<srvVars, runVars, err, warned, fetchVars, commentToThread,
                   processedThreads, candidates, cleanupResults, calls>>

DryRunAction_Hide(undo) == "would_hide"

(* hideBatch, lines 921-924; hideSingleComment, lines 846-849 *)
DryRunAction(undo) == IF undo THEN "would_unhide" ELSE "would_hide"

(* hideBatch, lines 939-945: the result of a failed mutation *)
FailedHide(rs, t, action, error) ==
    Append(rs, [t EXCEPT !.Success = FALSE, !.Action = action, !.Error = error])

(* hideBatch, lines 917-946: one iteration of the loop over targets *)
HideOne ==
    /\ cmd = "hide"
    /\ pc = "loop"
    /\ handled < Len(targets)
    /\ handled' = handled + 1
    /\ LET t == targets[handled + 1]
       IN IF flags.DryRun
          THEN /\ results' = Append(results,
                     [t EXCEPT !.Success = TRUE,
                               !.Action = DryRunAction(flags.Undo)])
               /\ calls' = calls
          ELSE \E ok \in BOOLEAN :
                  /\ calls' = Append(calls, Outcome(
                        IF flags.Undo
                        THEN Call("unminimizeComment", <<t.NodeID>>)
                        ELSE Call("minimizeComment", <<t.NodeID, flags.Classifier>>),
                        ok))
                  /\ LET action == IF flags.Undo THEN "unhide" ELSE "hide"
                     IN results' =
                          IF ok
                          THEN Append(results,
                                 [t EXCEPT !.Success = TRUE, !.Action = action])
                          ELSE FailedHide(results, t, action,
                                 IF flags.Undo THEN "failed to unminimize comment"
                                 ELSE "failed to minimize comment")
    /\ UNCHANGED <<srvVars, runVars, pc, err, warned, fetchVars,
                   commentToThread, processedThreads, candidates, targets,
                   cleanupResults, output>>

(* hideBatch, line 948: outputResults(results) returns nil *)
HidePrint ==
    /\ cmd = "hide"
    /\ pc = "loop"
    /\ handled = Len(targets)
    /\ output' = results
    /\ pc' = "done"
    /\ UNCHANGED <<srvVars, runVars, err, warned, fetchVars, loopVars,
                   results, calls>>

NextBatch ==
    \/ CleanupGetReviews
    \/ CleanupGetReviewComments
    \/ CleanupIdentify
    \/ CleanupFilter
    \/ CleanupMinimizeOne
    \/ CleanupMinimizeEnd
    \/ CleanupPrint
    \/ HideRequireAuthor
    \/ HideGetReviewComments
    \/ HideGetIssueComments
    \/ HideCollectTargets
    \/ HideOne
    \/ HidePrint

SpecBatch == InitBatch /\ [][NextBatch]_vars

----------------------------------------------------------------------------
(* Properties of the batch commands.                                       *)

(* C8: every review has its candidate, in order; TotalCount and            *)
(* ResolvedCount are the numbers of the review's comments and of its       *)
(* resolved comments; CanMinimize holds exactly when there is at least one *)
(* comment and all are resolved; no comment gives the reason "no inline    *)
(* comments", an unresolved comment the reason "has unresolved comments".  *)
C8_CleanupCandidates ==
    (cmd = "cleanup" /\ pc = "filter") =>
       /\ Len(candidates) = Len(reviews)
       /\ \A i \in DOMAIN candidates :
             LET c == candidates[i]
                 mine == {j \in DOMAIN comments :
                            comments[j].PullRequestReviewID = reviews[i].ID}
                 done == {j \in mine : comments[j].IsResolved}
             IN /\ c.Review = reviews[i]
                /\ c.TotalCount = Cardinality(mine)
                /\ c.ResolvedCount = Cardinality(done)
                /\ c.CanMinimize <=> (mine # {} /\ done = mine)
                /\ mine = {} => c.Reason = "no inline comments"
                /\ (mine # {} /\ done # mine) => c.Reason = "has unresolved comments"

(* C8 witness: a review with a resolved and an unresolved comment, a       *)
(* review whose one comment is resolved, a review with no comment.         *)
C8_Witness ==
    /\ cmd = "cleanup"
    /\ pc = "filter"
    /\ Len(candidates) = 3
    /\ candidates[1].TotalCount = 2 /\ candidates[1].ResolvedCount = 1
    /\ candidates[1].Reason = "has unresolved comments"
    /\ candidates[2].TotalCount = 1 /\ candidates[2].CanMinimize
    /\ candidates[3].TotalCount = 0
    /\ candidates[3].Reason = "no inline comments"

IsHideMutation(c) == c.op \in {"minimizeComment", "unminimizeComment"}

(* The mutation calls of the run, in call order. *)
BatchMutations == SelectSeq(calls, IsHideMutation)

(* The reviews `cleanup` is to minimize, once the candidates are filtered. *)
CleanupTargets == SelectSeq(candidates, LAMBDA c : c.CanMinimize)

C9_Hide ==
    (cmd = "hide" /\ ~flags.DryRun) =>
       /\ pc = "loop" => Len(results) = handled
       /\ (pc = "done" /\ err = "") => Len(results) = Len(targets)
       /\ Len(BatchMutations) = Len(results)
       /\ \A k \in DOMAIN results :
             /\ results[k].ID = targets[k].ID
             /\ results[k].Type = targets[k].Type
             /\ BatchMutations[k].arg[1] = targets[k].NodeID
             /\ results[k].Success <=> results[k].Error = ""

C9_Cleanup ==
    (cmd = "cleanup" /\ ~flags.DryRun /\ err = ""
        /\ pc \in {"minimize", "print", "done"}) =>
       LET attempted == IF pc = "minimize" THEN handled ELSE Len(CleanupTargets)
           succeeded == IF pc = "minimize" THEN results ELSE output.Minimized
       IN /\ Len(BatchMutations) = attempted
          /\ \A k \in 1..attempted :
                LET id == CleanupTargets[k].Review.ID
                IN /\ BatchMutations[k].arg[1] = CleanupTargets[k].Review.NodeID
                   /\ Cardinality({i \in DOMAIN succeeded :
                                      succeeded[i].Review.ID = id})
                      + Cardinality({i \in DOMAIN output.Failed :
                                      output.Failed[i].Review.ID = id}) = 1
          /\ Len(succeeded) + Len(output.Failed) = attempted
          /\ \A i \in DOMAIN output.Failed :
                /\ ~output.Failed[i].CanMinimize
                /\ output.Failed[i].Reason = "failed to minimize comment"

(* C9: in hide-by-author and in cleanup, both without --dry-run, the k-th  *)
(* target gets the k-th mutation call and exactly one result, a success or *)
(* a failure with the error text, whatever happened to the targets before  *)
(* it; when the run is over every target has had its call and its result;  *)
(* the command returns an error only when it made no mutation call.        *)
C9_BatchContinuesPastFailures ==
    (cmd \in {"hide", "cleanup"}) =>
       /\ C9_Hide
       /\ C9_Cleanup
       /\ err # "" => Len(BatchMutations) = 0

(* C9 witness: hide by author, two targets, the first mutation failed, the *)
(* second succeeded, the command returned nil.                             *)
C9_Witness ==
    /\ cmd = "hide"
    /\ ~flags.DryRun
    /\ pc = "done"
    /\ err = ""
    /\ Len(targets) >= 2
    /\ Len(results) = Len(targets)
    /\ ~results[1].Success /\ results[1].Error # ""
    /\ results[2].Success

(* C11: when the REST fetch of the review comments succeeded and the       *)
(* resolved-status query failed, `list` got no error from                  *)
(* GetReviewComments: a warning was written, the fetched comments are all  *)
(* the review comments of the pull request, each with IsResolved = FALSE,  *)
(* and the run goes on to the issue comments; with the default flags every *)
(* review comment is a row of the result.                                  *)
C11_StatusFailureIsNotFatal ==
    (cmd = "list" /\ warned) =>
       /\ pc \in {"issue", "done"}
       /\ pc = "issue" => err = ""
       /\ err \in {"", "failed to get issue comments"}
       /\ Len(comments) = Len(srvComments)
       /\ \A i \in DOMAIN comments :
             comments[i].ID = srvComments[i].ID /\ ~comments[i].IsResolved
       /\ (flags.ReviewID = 0 /\ flags.Outdated = "" /\ flags.Resolved = "") =>
             {results[i].ID : i \in {j \in DOMAIN results : results[j].Type = "review"}}
                = {srvComments[i].ID : i \in DOMAIN srvComments}

(* C11 witness: two review comments, the thread of the first resolved on   *)
(* the server; the status query failed and default `list` ended without    *)
(* error, showing both.                                                    *)
C11_Witness ==
    /\ ListDone
    /\ warned
    /\ ~flags.All /\ flags.Resolved = "" /\ flags.Outdated = ""
    /\ flags.ReviewID = 0 /\ flags.CommentType = ""
    /\ Len(srvComments) = 2
    /\ srvThreads[1].IsResolved
    /\ ShownReviewIDs = {1, 2}

(* The reviews a cleanup run is to minimize, from the fetched data and     *)
(* --review-id alone.                                                      *)
ExpectedCleanupTargets ==
    SelectSeq(identifyCleanupCandidates(reviews, comments),
              LAMBDA c : /\ c.CanMinimize
                         /\ flags.ReviewID = 0 \/ c.Review.ID = flags.ReviewID)

ReviewIDsOf(cs) == [i \in DOMAIN cs |-> cs[i].Review.ID]

(* C12: cleanup --dry-run makes no minimize call, and the reviews it       *)
(* reports as to be minimized are the reviews decided by the fetched data  *)
(* and --review-id alone; a run without --dry-run makes its minimize calls *)
(* on exactly those reviews, in that order, and they are its minimized     *)
(* plus its failed reviews.                                                *)
C12_DryRunReportsTheTargets ==
    cmd = "cleanup" =>
       /\ flags.DryRun => Len(BatchMutations) = 0
       /\ (err = "" /\ pc \in {"print", "done"}) =>
             IF flags.DryRun
             THEN /\ ReviewIDsOf(output.Minimized) = ReviewIDsOf(ExpectedCleanupTargets)
                  /\ output.Failed = <<>>
             ELSE /\ [k \in DOMAIN BatchMutations |-> BatchMutations[k].arg[1]]
                       = [k \in DOMAIN ExpectedCleanupTargets |->
                             ExpectedCleanupTargets[k].Review.NodeID]
                  /\ Range(ReviewIDsOf(output.Minimized))
                       \cup Range(ReviewIDsOf(output.Failed))
                       = Range(ReviewIDsOf(ExpectedCleanupTargets))

(* C12 witness: a dry run that reports two reviews and made no mutation.   *)
C12_Witness ==
    /\ cmd = "cleanup"
    /\ flags.DryRun
    /\ pc = "done"
    /\ err = ""
    /\ Len(output.Minimized) = 2
    /\ Len(output.Skipped) = 1
    /\ Len(BatchMutations) = 0

----------------------------------------------------------------------------
(* Specification SpecHide: one run of `hide`, with a comment ID            *)
(* (hideSingleComment) or with --author (hideBatch).                       *)

HideSingleFlags ==
    { [Undo |-> u, DryRun |-> dr, Author |-> "",
       Classifier |-> IF u THEN "" ELSE "RESOLVED"] :
      u \in BOOLEAN, dr \in BOOLEAN }

(* hide <id>: review comments 1..nc, issue comments 11.., one review 21;   *)
(* the ID is one of them or the ID of nothing.                             *)
InitHideSingle ==
    /\ cmd = "hide"
    /\ flags \in HideSingleFlags
    /\ srvReviews = <<Review(21, "carol", 1)>>
    /\ srvThreads = <<>>
    /\ \E nc \in 0..MaxComments, ni \in 0..MaxIssueComments :
          /\ srvComments = [i \in 1..nc |->
                ReviewComment(i, 21, Some(3), Some(5), "Alice")]
          /\ srvIssueComments = [i \in 1..ni |-> IssueComment(10 + i, "bob", i)]
          /\ \E id \in (1..(nc + 1)) \cup {11, 21} : args = <<id>>
    /\ IdleClient

InitHideCmd == InitHide \/ InitHideSingle

(* The first comment of cs with the ID, as a hide target. *)
FindByID(cs, type, id) ==
    LET hit == SelectSeq(cs, LAMBDA c : c.ID = id)
    IN IF hit = <<>> THEN <<>>
       ELSE <<HideResult(hit[1].ID, hit[1].NodeID, type, hit[1].Login, FALSE, "", "")>>

(* findCommentNodeID, lines 952-961: the review comments *)
HideFindReviewComment ==
    /\ cmd = "hide"
    /\ args # <<>>
    /\ pc = "start"
    /\ \E restOK, gqlOK \in BOOLEAN :
          LET r == GetReviewComments(restOK, gqlOK)
              found == FindByID(r.comments, "review", args[1])
          IN /\ comments' = r.comments
             /\ warned' = r.warned
             /\ calls' = calls \o r.calls
             /\ err' = r.err
             /\ targets' = found
             /\ pc' = IF r.err # "" THEN "done"
                      ELSE IF found # <<>> THEN "single" ELSE "findIssue"
    /\ UNCHANGED <<srvVars, runVars, reviews, issueComments, resolvedMap,
                   threads, cursor, commentToThread, processedThreads,
                   handled, candidates, cleanupResults, results, output>>

(* findCommentNodeID, lines 963-974: the issue comments, else not found *)
HideFindIssueComment ==
    /\ cmd = "hide"
    /\ args # <<>>
    /\ pc = "findIssue"
    /\ \E ok \in BOOLEAN :
          LET r == GetIssueComments(ok)
              found == FindByID(r.comments, "issue", args[1])
          IN /\ issueComments' = r.comments
             /\ calls' = calls \o r.calls
             /\ targets' = found
             /\ err' = IF r.err # "" THEN r.err
                       ELSE IF found # <<>> THEN ""
                       ELSE "comment with ID not found in PR"
             /\ pc' = IF r.err = "" /\ found # <<>> THEN "single" ELSE "done"
    /\ UNCHANGED <<srvVars, runVars, warned, reviews, comments, resolvedMap,
                   threads, cursor, commentToThread, processedThreads,
                   handled, candidates, cleanupResults, results, output>>

(* hideSingleComment, lines 838-869 *)
HideSingle ==
    /\ cmd = "hide"
    /\ args # <<>>
    /\ pc = "single"
    /\ LET t == targets[1]
       IN IF flags.DryRun
          THEN /\ results' = <<[t EXCEPT !.Success = TRUE,
                                         !.Action = DryRunAction(flags.Undo)]>>
               /\ calls' = calls
          ELSE \E ok \in BOOLEAN :
                  /\ calls' = Append(calls, Outcome(
                        IF flags.Undo
                        THEN Call("unminimizeComment", <<t.NodeID>>)
                        ELSE Call("minimizeComment", <<t.NodeID, flags.Classifier>>),
                        ok))
                  /\ LET action == IF flags.Undo THEN "unhide" ELSE "hide"
                     IN results' =
                          IF ok
                          THEN <<[t EXCEPT !.Success = TRUE, !.Action = action]>>
                          ELSE FailedHide(<<>>, t, action,
                                 IF flags.Undo THEN "failed to unminimize comment"
                                 ELSE "failed to minimize comment")
    /\ output' = results'
    /\ pc' = "done"
    /\ UNCHANGED <<srvVars, runVars, err, warned, fetchVars, loopVars>>

NextHide ==
    \/ HideRequireAuthor
    \/ HideGetReviewComments
    \/ HideGetIssueComments
    \/ HideCollectTargets
    \/ HideOne
    \/ HidePrint
    \/ HideFindReviewComment
    \/ HideFindIssueComment
    \/ HideSingle

SpecHide == InitHideCmd /\ [][NextHide]_vars

----------------------------------------------------------------------------
(* Properties of `hide`.                                                   *)

(* The targets of a hide run, from the fetched comments and the ID or the  *)
(* author alone.                                                           *)
ExpectedHideTargets ==
    IF args = <<>>
    THEN TargetsOf(comments, "review", flags.Author)
            \o TargetsOf(issueComments, "issue", flags.Author)
    ELSE IF FindByID(comments, "review", args[1]) # <<>>
    THEN FindByID(comments, "review", args[1])
    ELSE FindByID(issueComments, "issue", args[1])

(* The hide run is over and returned nil. *)
HideDone == cmd = "hide" /\ pc = "done" /\ err = ""

(* C13: hide --dry-run, with an ID or with --author, makes no minimize and *)
(* no unminimize call; when it is over it has reported each target decided *)
(* by the fetched comments with success and would_hide (would_unhide with  *)
(* --undo); a run without --dry-run makes its calls on exactly these       *)
(* targets.                                                                *)
C13_HideDryRun ==
    cmd = "hide" =>
       /\ flags.DryRun => Len(BatchMutations) = 0
       /\ HideDone =>
             /\ Len(output) = Len(ExpectedHideTargets)
             /\ \A k \in DOMAIN output :
                   /\ output[k].ID = ExpectedHideTargets[k].ID
                   /\ output[k].NodeID = ExpectedHideTargets[k].NodeID
                   /\ output[k].Type = ExpectedHideTargets[k].Type
                   /\ flags.DryRun =>
                         /\ output[k].Success
                         /\ output[k].Action =
                               (IF flags.Undo THEN "would_unhide" ELSE "would_hide")
             /\ ~flags.DryRun =>
                   [k \in DOMAIN BatchMutations |-> BatchMutations[k].arg[1]]
                      = [k \in DOMAIN ExpectedHideTargets |->
                            ExpectedHideTargets[k].NodeID]

(* C13 witness: a dry run of hide --undo --author over a review comment    *)
(* and an issue comment of the author; both reported, no call.             *)
C13_Witness ==
    /\ HideDone
    /\ args = <<>>
    /\ flags.DryRun /\ flags.Undo
    /\ Len(output) = 2
    /\ output[1].Type = "review" /\ output[2].Type = "issue"
    /\ output[2].Action = "would_unhide" /\ output[2].Success
    /\ Len(BatchMutations) = 0

(* The IDs of the review comments, reviews and issue comments of the pull  *)
(* request, each with its node ID.                                         *)
NodeIDsOfID(id) ==
    {srvComments[i].NodeID : i \in {j \in DOMAIN srvComments : srvComments[j].ID = id}}
    \cup {srvReviews[i].NodeID : i \in {j \in DOMAIN srvReviews : srvReviews[j].ID = id}}
    \cup {srvIssueComments[i].NodeID :
             i \in {j \in DOMAIN srvIssueComments : srvIssueComments[j].ID = id}}

FetchFailed ==
    err \in {"failed to get review comments", "failed to get issue comments",
             "failed to get reviews"}

(* C20: when hide <id> is over and no fetch failed, an ID that is the ID   *)
(* of a review comment, of a review or of an issue comment was found: the  *)
(* command returned nil, reported the entity's node ID and, without        *)
(* --dry-run, passed it to its one minimize or unminimize call.            *)
C20_HideFindsAnyEntity ==
    (cmd = "hide" /\ args # <<>> /\ pc = "done" /\ ~FetchFailed
        /\ NodeIDsOfID(args[1]) # {}) =>
       /\ err = ""
       /\ Len(output) = 1
       /\ output[1].NodeID \in NodeIDsOfID(args[1])
       /\ ~flags.DryRun =>
             /\ Len(BatchMutations) = 1
             /\ BatchMutations[1].arg[1] = output[1].NodeID

----------------------------------------------------------------------------
(* Specification SpecReply: one run of `reply <comment-id>` (runReply).    *)

ReplyFlags == [Body : {"", "thanks"}]

(* Review comments 1..nc, each in a thread of its own, issue comments      *)
(* 11.., one review 21; the ID is one of them or the ID of nothing.        *)
InitReply ==
    /\ cmd = "reply"
    /\ flags \in ReplyFlags
    /\ srvReviews = <<Review(21, "carol", 1)>>
    /\ \E nc \in 0..MaxComments, ni \in 0..MaxIssueComments :
          /\ srvComments = [i \in 1..nc |->
                ReviewComment(i, 21, Some(3), Some(5), "alice")]
          /\ srvThreads = [i \in 1..nc |-> ReviewThread(i, FALSE, <<i>>)]
          /\ srvIssueComments = [i \in 1..ni |-> IssueComment(10 + i, "bob", i)]
          /\ \E id \in (1..(nc + 1)) \cup {11, 21} : args = <<id>>
    /\ IdleClient

(* getReplyBody: the body of --body or of stdin; none is an error.  Then   *)
(* the reference is resolved, unless the run starts with it resolved.      *)
ReplyGetBody ==
    /\ cmd = "reply"
    /\ pc = "start"
    /\ IF flags.Body = ""
       THEN err' = "reply body required" /\ pc' = "done"
       ELSE err' = err /\ pc' = IF prRef = NoRef THEN "ref" ELSE "find"
    /\ UNCHANGED <<srvVars, runVars, warned, fetchVars, workVars, calls>>

findReviewComment_Any(cs, commentID) == TRUE

(* findReviewComment, lines 486-492 *)
findReviewComment(cs, commentID) == \E i \in DOMAIN cs : cs[i].ID = commentID

(* runReply, lines 433-439 *)
ReplyFindReviewComment ==
    /\ cmd = "reply"
    /\ pc = "find"
    /\ \E restOK, gqlOK \in BOOLEAN :
          LET r == GetReviewComments(restOK, gqlOK)
          IN /\ comments' = r.comments
             /\ warned' = r.warned
             /\ calls' = calls \o r.calls
             /\ IF r.err # ""
                THEN err' = r.err /\ pc' = "done"
                ELSE IF findReviewComment(r.comments, args[1])
                THEN err' = err /\ pc' = "post"
                ELSE err' = "review comment not found in PR" /\ pc' = "done"
    /\ UNCHANGED <<srvVars, runVars, reviews, issueComments, resolvedMap,
                   threads, cursor, workVars>>

(* The thread of the parent comment gets the reply. *)
AddToThreadOf(ts, parentID, replyID) ==
    [i \in DOMAIN ts |->
        IF parentID \in Range(ts[i].CommentIDs)
        THEN [ts[i] EXCEPT !.CommentIDs = Append(ts[i].CommentIDs, replyID)]
        ELSE ts[i]]

(* runReply, lines 441-453: Client.ReplyToReviewComment and the output *)
ReplyPost ==
    /\ cmd = "reply"
    /\ pc = "post"
    /\ \E ok \in BOOLEAN :
       /\ calls' = Append(calls, Outcome(Call("POST pulls/comments/replies", args[1]), ok))
       /\ IF ok
          THEN LET reply == ReviewComment(100, 21, Some(3), Some(5), "me")
               IN /\ srvComments' = Append(srvComments, reply)
                  /\ srvThreads' = AddToThreadOf(srvThreads, args[1], 100)
                  /\ output' = <<reply>>
                  /\ err' = err
          ELSE /\ err' = "failed to reply to comment"
               /\ UNCHANGED <<srvComments, srvThreads, output>>
    /\ pc' = "done"
    /\ UNCHANGED <<srvReviews, srvIssueComments, runVars, warned, fetchVars,
                   loopVars, results>>

NextReply == ReplyGetBody \/ ReplyFindReviewComment \/ ReplyPost

SpecReply == InitReply /\ [][NextReply]_vars

IsReplyPost(c) == c.op = "POST pulls/comments/replies"

ReplyPosts == SelectSeq(calls, IsReplyPost)

(* C14: reply posts at most once, under the requested ID, and only when    *)
(* that ID is among the fetched review comments; once the run is over with *)
(* the comments fetched, an ID among them has had exactly one POST, an ID  *)
(* not among them (the ID of an issue comment or of a review included)     *)
(* has had none and the command failed with the not-found error.           *)
C14_ReplyOnlyToFetchedReviewComment ==
    cmd = "reply" =>
       /\ Len(ReplyPosts) <= 1
       /\ \A k \in DOMAIN ReplyPosts :
             /\ ReplyPosts[k].arg = args[1]
             /\ args[1] \in FetchedIDs
       /\ (pc = "done" /\ flags.Body # ""
              /\ err # "failed to get review comments") =>
             IF args[1] \in FetchedIDs
             THEN Len(ReplyPosts) = 1
             ELSE Len(ReplyPosts) = 0 /\ err = "review comment not found in PR"

(* C14 witness: the ID of an issue comment: not found, no POST. *)
C14_Witness ==
    /\ cmd = "reply"
    /\ pc = "done"
    /\ args = <<11>>
    /\ Len(srvIssueComments) = 1
    /\ Len(comments) >= 1
    /\ err = "review comment not found in PR"
    /\ Len(ReplyPosts) = 0

----------------------------------------------------------------------------
(* PR references (internal/github: ParsePRReference, ResolvePRReference).  *)
(* A reference text is a sequence of tokens: "/", "https:", "-", the       *)
(* decimal digits, and pieces of names ("a", "pull", "github.com"), so a   *)
(* name can be, begin or end with the words the URL pattern looks for.     *)

Digits == {"0", "1", "2", "3", "4", "5", "6", "7", "8", "9"}

DigitVal(t) ==
    CASE t = "0" -> 0 [] t = "1" -> 1 [] t = "2" -> 2 [] t = "3" -> 3
      [] t = "4" -> 4 [] t = "5" -> 5 [] t = "6" -> 6 [] t = "7" -> 7
      [] t = "8" -> 8 [] t = "9" -> 9

DigitOf(n) ==
    CASE n = 0 -> "0" [] n = 1 -> "1" [] n = 2 -> "2" [] n = 3 -> "3"
      [] n = 4 -> "4" [] n = 5 -> "5" [] n = 6 -> "6" [] n = 7 -> "7"
      [] n = 8 -> "8" [] n = 9 -> "9"

(* fmt %d of a number that is not negative *)
RECURSIVE Itoa(_)
Itoa(n) == IF n < 10 THEN <<DigitOf(n)>> ELSE Append(Itoa(n \div 10), DigitOf(n % 10))

(* The value of a sequence of digits (the numbers in use are far from the  *)
(* width of int).                                                          *)
RECURSIVE DigitsValue(_)
DigitsValue(ds) ==
    IF ds = <<>> THEN 0
    ELSE DigitsValue(SubSeq(ds, 1, Len(ds) - 1)) * 10 + DigitVal(ds[Len(ds)])

AllDigits(ds) == ds # <<>> /\ \A k \in DOMAIN ds : ds[k] \in Digits

(* strconv.Atoi: an optional sign and at least one digit *)
Atoi(s) ==
    IF AllDigits(s) THEN [ok |-> TRUE, num |-> DigitsValue(s)]
    ELSE IF Len(s) >= 2 /\ s[1] = "-" /\ AllDigits(Tail(s))
    THEN [ok |-> TRUE, num |-> 0 - DigitsValue(Tail(s))]
    ELSE [ok |-> FALSE, num |-> 0]

(* The end of the longest run of tokens other than "/" that starts at i    *)
(* (i - 1 when there is none): the extent of a greedy [^/]+ there.         *)
NonSlashEnd(s, i) ==
    CHOOSE j \in (i - 1)..Len(s) :
        /\ \A k \in i..j : s[k] # "/"
        /\ j = Len(s) \/ s[j + 1] = "/"

(* The same for digits: the extent of a greedy \d+ at i. *)
DigitEnd(s, i) ==
    CHOOSE j \in (i - 1)..Len(s) :
        /\ \A k \in i..j : s[k] \in Digits
        /\ j = Len(s) \/ s[j + 1] \notin Digits

TokenAt(s, i, t) == i \in DOMAIN s /\ s[i] = t

(* github\.com/([^/]+)/([^/]+)/pull/(\d+) matched at token i *)
URLMatchAt(s, i) ==
    /\ TokenAt(s, i, "github.com")
    /\ TokenAt(s, i + 1, "/")
    /\ LET e1 == NonSlashEnd(s, i + 2)
       IN /\ e1 >= i + 2
          /\ TokenAt(s, e1 + 1, "/")
          /\ LET e2 == NonSlashEnd(s, e1 + 2)
             IN /\ e2 >= e1 + 2
                /\ TokenAt(s, e2 + 1, "/")
                /\ TokenAt(s, e2 + 2, "pull")
                /\ TokenAt(s, e2 + 3, "/")
                /\ e2 + 4 <= Len(s) + 1
                /\ DigitEnd(s, e2 + 4) >= e2 + 4

URLGroups(s, i) ==
    LET e1 == NonSlashEnd(s, i + 2)
        e2 == NonSlashEnd(s, e1 + 2)
        e3 == DigitEnd(s, e2 + 4)
    IN <<SubSeq(s, i + 2, e1), SubSeq(s, e1 + 2, e2), SubSeq(s, e2 + 4, e3)>>

(* ^([^/]+)/([^/]+)/(\d+)$ *)
ShortMatch(s) ==
    LET e1 == NonSlashEnd(s, 1)
    IN /\ e1 >= 1
       /\ TokenAt(s, e1 + 1, "/")
       /\ LET e2 == NonSlashEnd(s, e1 + 2)
          IN /\ e2 >= e1 + 2
             /\ TokenAt(s, e2 + 1, "/")
             /\ AllDigits(SubSeq(s, e2 + 2, Len(s)))

ShortGroups(s) ==
    LET e1 == NonSlashEnd(s, 1)
        e2 == NonSlashEnd(s, e1 + 2)
    IN <<SubSeq(s, 1, e1), SubSeq(s, e1 + 2, e2), SubSeq(s, e2 + 2, Len(s))>>

ParseResult(ok, form, ref) == [ok |-> ok, form |-> form, ref |-> ref]

ParsePRReference_ShortFirst(ref) ==
    IF ShortMatch(ref)
    THEN LET g == ShortGroups(ref)
         IN ParseResult(TRUE, "short", PRReference(g[1], g[2], DigitsValue(g[3])))
    ELSE IF Atoi(ref).ok
    THEN ParseResult(TRUE, "number", PRReference(<<>>, <<>>, Atoi(ref).num))
    ELSE ParseResult(FALSE, "invalid", PRReference(<<>>, <<>>, 0))

(* ParsePRReference: the leftmost match of the URL pattern, else the short *)
(* pattern, else a number, else an error.                                  *)
ParsePRReference(ref) ==
    IF \E i \in DOMAIN ref : URLMatchAt(ref, i)
    THEN LET i == CHOOSE i \in DOMAIN ref :
                     /\ URLMatchAt(ref, i)
                     /\ \A j \in 1..(i - 1) : ~URLMatchAt(ref, j)
             g == URLGroups(ref, i)
         IN ParseResult(TRUE, "url", PRReference(g[1], g[2], DigitsValue(g[3])))
    ELSE IF ShortMatch(ref)
    THEN LET g == ShortGroups(ref)
         IN ParseResult(TRUE, "short", PRReference(g[1], g[2], DigitsValue(g[3])))
    ELSE IF Atoi(ref).ok
    THEN ParseResult(TRUE, "number", PRReference(<<>>, <<>>, Atoi(ref).num))
    ELSE ParseResult(FALSE, "invalid", PRReference(<<>>, <<>>, 0))

(* Where a run goes once its reference is resolved: the command's first    *)
(* step (for reply, whose body is read before the reference, the step      *)
(* after it), or the end when ResolvePRReference is run on its own.        *)
AfterRef ==
    IF cmd = "ResolvePRReference" THEN "done"
    ELSE IF cmd = "reply" THEN "find"
    ELSE "start"

AfterRefError_Continue == AfterRef

(* Where a run goes when ResolvePRReference returns an error: every caller *)
(* returns it.                                                             *)
AfterRefError == "done"

HasReference_AnyArg(a) == Len(a) > 0

(* ResolvePRReference, line 682: len(args) > 0 && args[0] != "" *)
HasReference(a) == Len(a) > 0 /\ a[1] # <<>>

(* ResolvePRReference, lines 682-686 and 695-698: the argument is parsed,  *)
(* or the ambient repository is asked for the auto-detection.              *)
RefParse ==
    /\ pc = "ref"
    /\ IF HasReference(prArg)
       THEN LET r == ParsePRReference(prArg[1])
            IN IF ~r.ok
               THEN /\ err' = "invalid PR reference"
                    /\ pc' = AfterRefError
                    /\ UNCHANGED <<prRef, calls>>
               ELSE /\ prRef' = r.ref
                    /\ err' = err
                    /\ calls' = calls
                    /\ pc' = IF r.ref.Owner # <<>> /\ r.ref.Repo # <<>>
                             THEN AfterRef ELSE "refOwnerRepo"
       ELSE /\ calls' = Append(calls, Call("repository.Current", Null))
            /\ IF env.Repo = Null
               THEN /\ err' = "no PR specified and not in a git repository"
                    /\ pc' = AfterRefError
                    /\ prRef' = prRef
               ELSE /\ prRef' = PRReference(env.Repo[1].Owner, env.Repo[1].Repo, 0)
                    /\ err' = err
                    /\ pc' = "refBranch"
    /\ UNCHANGED <<srvVars, cmd, flags, args, prArg, env, warned, fetchVars,
                   workVars>>

(* PRReference.ResolveOwnerRepo, lines 626-633: GetCurrentRepo *)
RefResolveOwnerRepo ==
    /\ pc = "refOwnerRepo"
    /\ calls' = Append(calls, Call("repository.Current", Null))
    /\ IF env.Repo = Null
       THEN /\ err' = "not in a git repository"
            /\ pc' = AfterRefError
            /\ prRef' = prRef
       ELSE /\ prRef' = PRReference(env.Repo[1].Owner, env.Repo[1].Repo,
                                    prRef.Number)
            /\ err' = err
            /\ pc' = AfterRef
    /\ UNCHANGED <<srvVars, cmd, flags, args, prArg, env, warned, fetchVars,
                   workVars>>

(* ResolvePRReference, lines 700-703: GetCurrentBranch *)
RefCurrentBranch ==
    /\ pc = "refBranch"
    /\ calls' = Append(calls, Call("git rev-parse", Null))
    /\ IF env.Branch = Null
       THEN err' = "no PR specified and failed to get current branch" /\ pc' = AfterRefError
       ELSE err' = err /\ pc' = "refSearch"
    /\ UNCHANGED <<srvVars, runVars, warned, fetchVars, workVars>>

(* ResolvePRReference, lines 705-708: FindPRForBranch, the first result *)
RefFindPRForBranch ==
    /\ pc = "refSearch"
    /\ \E ok \in BOOLEAN :
       /\ calls' = Append(calls, Outcome(Call("GET pulls?head", env.Branch[1]), ok))
       /\ IF ~ok
          THEN /\ err' = "no PR specified and failed to search PRs"
               /\ pc' = AfterRefError
               /\ prRef' = prRef
          ELSE IF Len(env.PRs) = 0
          THEN /\ err' = "no PR specified and no pull request found for branch"
               /\ pc' = AfterRefError
               /\ prRef' = prRef
          ELSE /\ prRef' = PRReference(prRef.Owner, prRef.Repo, env.PRs[1])
               /\ err' = err
               /\ pc' = AfterRef
    /\ UNCHANGED <<srvVars, cmd, flags, args, prArg, env, warned, fetchVars,
                   workVars>>

NextRef ==
    \/ RefParse
    \/ RefResolveOwnerRepo
    \/ RefCurrentBranch
    \/ RefFindPRForBranch

(* The ambient repository (or none), the current branch (or none) and the  *)
(* pull requests the search by head ref returns.                           *)
Envs ==
    [Repo : {Null, Some([Owner |-> <<"acme">>, Repo |-> <<"widgets">>])},
     Branch : {Null, Some("feature")},
     PRs : {<<>>, <<5>>, <<5, 6>>}]

----------------------------------------------------------------------------
(* Specification SpecParse: ResolvePRReference given the full URL or the   *)
(* short form of an owner, a repository and a number.                      *)

MaxNameLen == 2
MaxNumber == 10

NameTokens == {"a", "pull", "github.com"}
Names == UNION { [1..n -> NameTokens] : n \in 1..MaxNameLen }

URLForm(o, r, n) == <<"https:", "/", "/", "github.com", "/">> \o o \o <<"/">> \o r
                       \o <<"/", "pull", "/">> \o Itoa(n)

ShortForm(o, r, n) == o \o <<"/">> \o r \o <<"/">> \o Itoa(n)

(* args holds the owner, the repository and the number the text was made   *)
(* of.                                                                     *)
InitParse ==
    /\ cmd = "ResolvePRReference"
    /\ flags = NoFlags
    /\ \E o \in Names, r \in Names, n \in 0..MaxNumber :
          /\ args = <<o, r, n>>
          /\ prArg \in {<<URLForm(o, r, n)>>, <<ShortForm(o, r, n)>>}
    /\ env \in {e \in Envs : e.PRs = <<5>> /\ e.Branch # Null}
    /\ prRef = NoRef
    /\ srvReviews = <<>> /\ srvComments = <<>>
    /\ srvThreads = <<>> /\ srvIssueComments = <<>>
    /\ pc = "ref"
    /\ IdleWork

(* With an owner and a repository in the text, ResolvePRReference is over  *)
(* after the parse.                                                        *)
NextParse == RefParse

SpecParse == InitParse /\ [][NextParse]_vars

(* C15: the full URL and the short form of an owner o, a repository r and  *)
(* a number n both resolve, without error and without asking for the       *)
(* ambient repository, to the reference (o, r, n).                         *)
C15_URLAndShortFormAgree ==
    (cmd = "ResolvePRReference" /\ Len(args) = 3) =>
       /\ pc \in {"ref", "done"}
       /\ calls = <<>>
       /\ pc = "done" =>
             /\ err = ""
             /\ prRef = PRReference(args[1], args[2], args[3])

(* C15 witness: the URL of owner "pull", repository "github.com" "a",      *)
(* number 10 is resolved.                                                  *)
C15_Witness ==
    /\ cmd = "ResolvePRReference"
    /\ pc = "done"
    /\ args = <<(<<"pull">>), (<<"github.com", "a">>), 10>>
    /\ prArg = <<URLForm(args[1], args[2], args[3])>>
    /\ prRef = PRReference(<<"pull">>, <<"github.com", "a">>, 10)

----------------------------------------------------------------------------
(* Specification SpecRef: ResolvePRReference on each kind of argument, in  *)
(* every ambient situation.                                                *)

(* The argument list of each kind; args names the kind. *)
RefArgOf(kind) ==
    CASE kind = "absent"    -> <<>>
      [] kind = "empty"     -> <<(<<>>)>>
      [] kind = "url"       -> <<URLForm(<<"o">>, <<"r">>, 7)>>
      [] kind = "urlFiles"  -> <<URLForm(<<"o">>, <<"r">>, 7) \o <<"/", "a">>>>
      [] kind = "urlBare"   -> <<(<<"github.com", "/", "o", "/", "r", "/", "pull", "/", "7">>)>>
      [] kind = "short"     -> <<ShortForm(<<"o">>, <<"r">>, 7)>>
      [] kind = "number"    -> <<Itoa(7)>>
      [] kind = "negative"  -> <<(<<"-", "7">>)>>
      [] kind = "word"      -> <<(<<"a">>)>>
      [] kind = "pair"      -> <<(<<"o", "/", "7">>)>>
      [] kind = "names"     -> <<(<<"o", "/", "r", "/", "a">>)>>
      [] kind = "issueURL"  -> <<(<<"https:", "/", "/", "github.com", "/", "o", "/", "r", "/", "a", "/", "7">>)>>
      [] kind = "trailing"  -> <<(<<"o", "/", "r", "/", "7", "/">>)>>

RefKinds == {"absent", "empty", "url", "urlFiles", "urlBare", "short",
             "number", "negative", "word", "pair", "names", "issueURL",
             "trailing"}

InitRef ==
    /\ cmd = "ResolvePRReference"
    /\ flags = NoFlags
    /\ \E kind \in RefKinds : args = <<kind>> /\ prArg = RefArgOf(kind)
    /\ env \in Envs
    /\ prRef = NoRef
    /\ srvReviews = <<>> /\ srvComments = <<>>
    /\ srvThreads = <<>> /\ srvIssueComments = <<>>
    /\ pc = "ref"
    /\ IdleWork

SpecRef == InitRef /\ [][NextRef]_vars

CallOps == [k \in DOMAIN calls |-> calls[k].op]

IsPrefixOf(a, b) == Len(a) <= Len(b) /\ a = SubSeq(b, 1, Len(a))

RefOver == cmd = "ResolvePRReference" /\ Len(args) = 1 /\ pc = "done"

(* C16: a text holding a PR URL resolves to the URL's owner, repository    *)
(* and number, an owner/repo/number triple to its parts, both with no      *)
(* lookup; a bare number takes owner and repository from the ambient       *)
(* repository; any other non-empty text is an error; only an absent or     *)
(* empty argument starts the auto-detection, which asks for the current    *)
(* repository, then the current branch, then searches the PRs by head ref  *)
(* and takes the first; a non-empty argument never asks for the branch nor *)
(* searches.                                                               *)
C16_ReferencePriority ==
    (cmd = "ResolvePRReference" /\ Len(args) = 1) =>
       LET kind == args[1]
       IN /\ kind \in {"url", "urlFiles", "urlBare", "short"} =>
                /\ calls = <<>>
                /\ pc = "done" =>
                      err = "" /\ prRef = PRReference(<<"o">>, <<"r">>, 7)
          /\ kind \in {"number", "negative"} =>
                /\ IsPrefixOf(CallOps, <<"repository.Current">>)
                /\ (pc = "done" /\ env.Repo # Null) =>
                      /\ err = ""
                      /\ prRef = PRReference(env.Repo[1].Owner, env.Repo[1].Repo,
                                             IF kind = "number" THEN 7 ELSE 0 - 7)
                /\ (pc = "done" /\ env.Repo = Null) => err = "not in a git repository"
          /\ kind \in {"word", "pair", "names", "issueURL", "trailing"} =>
                /\ calls = <<>>
                /\ pc = "done" => err = "invalid PR reference"
          /\ kind \in {"absent", "empty"} =>
                /\ IsPrefixOf(CallOps,
                      <<"repository.Current", "git rev-parse", "GET pulls?head">>)
                /\ (pc = "done" /\ err = "") =>
                      /\ Len(calls) = 3
                      /\ prRef = PRReference(env.Repo[1].Owner, env.Repo[1].Repo,
                                             env.PRs[1])
                /\ (pc = "done" /\ env.Repo # Null /\ env.Branch # Null
                       /\ env.PRs # <<>>) =>
                      err \in {"", "no PR specified and failed to search PRs"}

(* C16 witness: an empty argument in a repository on a branch with two     *)
(* pull requests: the first is taken after the three lookups.              *)
C16_Witness ==
    /\ RefOver
    /\ args = <<"empty">>
    /\ env.PRs = <<5, 6>>
    /\ err = ""
    /\ prRef.Number = 5
    /\ CallOps = <<"repository.Current", "git rev-parse", "GET pulls?head">>

----------------------------------------------------------------------------
(* Specification SpecView: one run of `view <id>` on a pull request whose  *)
(* reference is already resolved.  The ID stays the text of the argument   *)
(* and is compared with the decimal text of each item's ID.                *)

MaxViewReviews == 2

(* The three lookups of runView, in the order of its three if-statements. *)
ViewOrder_ReviewsFirst == <<"review", "review comment", "issue comment">>

ViewOrder == <<"review comment", "review", "issue comment">>

(* The run is at the lookup of kind k. *)
ViewAt(k) == (pc = "start" /\ ViewOrder[1] = k) \/ pc = k

(* Where the run goes when the lookup of kind k matched nothing. *)
ViewAfter(k) ==
    LET i == CHOOSE j \in DOMAIN ViewOrder : ViewOrder[j] = k
    IN IF i < Len(ViewOrder) THEN ViewOrder[i + 1] ELSE "done"

ViewNotFound ==
    "item with ID not found in PR (searched review comments, reviews, and issue comments)"

(* for _, c := range items { if fmt.Sprintf("%d", c.ID) == id { ... } } *)
ViewMatch(items, kind, id) ==
    LET hit == SelectSeq(items, LAMBDA c : Itoa(c.ID) = id)
    IN IF hit = <<>> THEN <<>> ELSE <<[Kind |-> kind, Item |-> hit[1]]>>

(* The texts given as the ID: the decimal of a number, or 01. *)
ViewIDs == { Itoa(n) : n \in {1, 2, 11, 21, 99} } \cup { <<"0", "1">> }

(* With collide, the three kinds number their items from 1, so that one ID *)
(* names an item of each kind.                                             *)
InitView ==
    /\ cmd = "view"
    /\ flags = NoFlags
    /\ srvThreads = <<>>
    /\ \E nc \in 0..MaxComments, nr \in 0..MaxViewReviews,
          ni \in 0..MaxIssueComments, collide \in BOOLEAN :
          /\ srvComments = [i \in 1..nc |->
                ReviewComment(i, 21, Some(3), Some(5), "alice")]
          /\ srvReviews = [i \in 1..nr |->
                Review(IF collide THEN i ELSE 20 + i, "carol", i)]
          /\ srvIssueComments = [i \in 1..ni |->
                IssueComment(IF collide THEN i ELSE 10 + i, "bob", i)]
    /\ \E id \in ViewIDs : args = <<id>>
    /\ IdleClient

(* tryViewReviewComment *)
ViewReviewComment ==
    /\ cmd = "view"
    /\ ViewAt("review comment")
    /\ \E restOK, gqlOK \in BOOLEAN :
          LET r == GetReviewComments(restOK, gqlOK)
              found == ViewMatch(r.comments, "review comment", args[1])
          IN /\ comments' = r.comments
             /\ warned' = r.warned
             /\ calls' = calls \o r.calls
             /\ err' = r.err
             /\ output' = found
             /\ pc' = IF r.err # "" \/ found # <<>> THEN "done"
                      ELSE ViewAfter("review comment")
    /\ UNCHANGED <<srvVars, runVars, reviews, issueComments, resolvedMap,
                   threads, cursor, loopVars, results>>

(* tryViewReview *)
ViewReview ==
    /\ cmd = "view"
    /\ ViewAt("review")
    /\ \E ok \in BOOLEAN :
          LET r == GetReviews(ok)
              found == ViewMatch(r.reviews, "review", args[1])
          IN /\ reviews' = r.reviews
             /\ calls' = calls \o r.calls
             /\ err' = r.err
             /\ output' = found
             /\ pc' = IF r.err # "" \/ found # <<>> THEN "done"
                      ELSE ViewAfter("review")
    /\ UNCHANGED <<srvVars, runVars, warned, comments, issueComments,
                   resolvedMap, threads, cursor, loopVars, results>>

(* tryViewIssueComment, then the final error of runView *)
ViewIssueComment ==
    /\ cmd = "view"
    /\ ViewAt("issue comment")
    /\ \E ok \in BOOLEAN :
          LET r == GetIssueComments(ok)
              found == ViewMatch(r.comments, "issue comment", args[1])
              next == ViewAfter("issue comment")
          IN /\ issueComments' = r.comments
             /\ calls' = calls \o r.calls
             /\ output' = found
             /\ err' = IF r.err # "" THEN r.err
                       ELSE IF found = <<>> /\ next = "done" THEN ViewNotFound
                       ELSE ""
             /\ pc' = IF r.err # "" \/ found # <<>> THEN "done" ELSE next
    /\ UNCHANGED <<srvVars, runVars, warned, reviews, comments, resolvedMap,
                   threads, cursor, loopVars, results>>

NextView == ViewReviewComment \/ ViewReview \/ ViewIssueComment

SpecView == InitView /\ [][NextView]_vars

(* The data fetches of the run, in order, without the resolved-status      *)
(* query that GetReviewComments makes on its own.                          *)
ViewFetches ==
    SelectSeq([k \in DOMAIN calls |-> calls[k].op],
              LAMBDA op : op # "query GetReviewThreads")

(* The first kind, in the order review comments, reviews, issue comments,  *)
(* that has an item with the ID on the pull request.                       *)
FirstKindWith(id) ==
    IF ViewMatch(srvComments, "review comment", id) # <<>> THEN "review comment"
    ELSE IF ViewMatch(srvReviews, "review", id) # <<>> THEN "review"
    ELSE IF ViewMatch(srvIssueComments, "issue comment", id) # <<>> THEN "issue comment"
    ELSE "none"

ViewDone == cmd = "view" /\ pc = "done"

(* C19: `view <id>` fetches review comments, then reviews, then issue      *)
(* comments, each list at most once and a later list only when no earlier  *)
(* list has an item with the ID; a run that ends without error shows       *)
(* exactly one item, of the first kind that has the ID; a run whose three  *)
(* fetches all succeeded and matched nothing ends with the error that      *)
(* names the three kinds.                                                  *)
C19_ViewLookupOrder ==
    cmd = "view" =>
       /\ IsPrefixOf(ViewFetches,
             <<"GET pulls/comments", "GET pulls/reviews", "GET issues/comments">>)
       /\ Len(ViewFetches) >= 2 =>
             /\ calls[1].ok
             /\ ViewMatch(srvComments, "review comment", args[1]) = <<>>
       /\ Len(ViewFetches) = 3 =>
             /\ \A k \in 1..(Len(calls) - 1) :
                   calls[k].op = "GET pulls/reviews" => calls[k].ok
             /\ ViewMatch(srvReviews, "review", args[1]) = <<>>
       /\ (ViewDone /\ err = "") =>
             /\ Len(output) = 1
             /\ output[1].Kind = FirstKindWith(args[1])
             /\ Itoa(output[1].Item.ID) = args[1]
       /\ (ViewDone /\ err # "") => output = <<>>
       /\ (ViewDone /\ err = ViewNotFound) =>
             /\ FirstKindWith(args[1]) = "none"
             /\ Len(ViewFetches) = 3
       /\ (ViewDone /\ FirstKindWith(args[1]) = "none"
             /\ \A k \in DOMAIN calls :
                   calls[k].op # "query GetReviewThreads" => calls[k].ok) =>
             err = ViewNotFound

(* C19 witness: the ID 1 names a review and an issue comment and no review *)
(* comment; the review is shown and the issue comments were never fetched. *)
C19_Witness ==
    /\ ViewDone
    /\ err = ""
    /\ args = << <<"1">> >>
    /\ srvComments = <<>>
    /\ Len(srvIssueComments) = 1
    /\ srvIssueComments[1].ID = 1
    /\ output[1].Kind = "review"
    /\ ViewFetches = <<"GET pulls/comments", "GET pulls/reviews">>

----------------------------------------------------------------------------
(* Specification SpecCommand: one run of any of the eight commands, from   *)
(* the resolution of its PR reference to its end, on one pull request:     *)
(* review comment 1 of review 21 in a resolved thread, review comment 2 of *)
(* review 22 in an unresolved thread, issue comment 11.                    *)

Commands ==
    {"reviews", "list", "tree", "view", "reply", "resolve", "hide", "cleanup"}

CommandWorld ==
    /\ srvReviews = <<Review(21, "carol", 1), Review(22, "carol", 2)>>
    /\ srvComments = <<ReviewComment(1, 21, Some(3), Some(5), "Alice"),
                       ReviewComment(2, 22, Some(3), Some(5), "Alice")>>
    /\ srvThreads = <<ReviewThread(1, TRUE, <<1>>), ReviewThread(2, FALSE, <<2>>)>>
    /\ srvIssueComments = <<IssueComment(11, "bob", 1)>>

DefaultListFlags ==
    [ReviewID |-> 0, Outdated |-> "", Resolved |-> "", All |-> FALSE,
     CommentType |-> ""]

(* The texts given as the reference: none, a URL, a bare number, a word. *)
CommandRefKinds == {"absent", "url", "number", "word"}

(* reviews, list, tree and cleanup pass their positional arguments to      *)
(* ResolvePRReference, reply, resolve and hide the value of --pr, view     *)
(* passes nil.  reply reads its body first.                                *)
InitCommand ==
    /\ CommandWorld
    /\ \/ cmd = "reviews" /\ flags = NoFlags /\ args = <<>>
       \/ cmd = "list" /\ flags = DefaultListFlags /\ args = <<>>
       \/ cmd = "tree" /\ flags \in [All : BOOLEAN] /\ args = <<>>
       \/ cmd = "view" /\ flags = NoFlags
             /\ \E n \in {2, 22, 11, 99} : args = <<Itoa(n)>>
       \/ cmd = "reply" /\ flags \in ReplyFlags /\ args \in {<<2>>, <<99>>}
       \/ cmd = "resolve" /\ flags \in [Undo : BOOLEAN]
             /\ args \in {<<2>>, <<2, 99>>}
       \/ cmd = "hide" /\ flags \in HideSingleFlags
             /\ args \in {<<1>>, <<11>>, <<99>>}
       \/ cmd = "hide" /\ flags \in HideFlags /\ args = <<>>
       \/ cmd = "cleanup" /\ flags \in CleanupFlags /\ args = <<>>
    /\ \E kind \in CommandRefKinds :
          /\ cmd = "view" => kind = "absent"
          /\ prArg = RefArgOf(kind)
    /\ env \in Envs
    /\ prRef = NoRef
    /\ pc = IF cmd = "reply" THEN "start" ELSE "ref"
    /\ IdleWork

(* runReviews: GetReviews, then the table or the JSON of the reviews *)
ReviewsGetReviews ==
    /\ cmd = "reviews"
    /\ pc = "start"
    /\ \E ok \in BOOLEAN :
          LET r == GetReviews(ok)
          IN /\ reviews' = r.reviews
             /\ calls' = calls \o r.calls
             /\ err' = r.err
             /\ output' = r.reviews
    /\ pc' = "done"
    /\ UNCHANGED <<srvVars, runVars, warned, comments, issueComments,
                   resolvedMap, threads, cursor, loopVars, results>>

NextCleanup ==
    \/ CleanupGetReviews
    \/ CleanupGetReviewComments
    \/ CleanupIdentify
    \/ CleanupFilter
    \/ CleanupMinimizeOne
    \/ CleanupMinimizeEnd
    \/ CleanupPrint

NextCommand ==
    \/ NextRef
    \/ ReviewsGetReviews
    \/ NextList
    \/ NextTree
    \/ NextView
    \/ NextReply
    \/ NextResolve
    \/ NextHide
    \/ NextCleanup

SpecCommand == InitCommand /\ [][NextCommand]_vars

(* The errors ResolvePRReference returns. *)
RefErrors ==
    {"invalid PR reference",
     "no PR specified and not in a git repository",
     "not in a git repository",
     "no PR specified and failed to get current branch",
     "no PR specified and failed to search PRs",
     "no PR specified and no pull request found for branch"}

(* The lookups ResolvePRReference makes: none of them reads reviews,       *)
(* comments or threads.                                                    *)
RefLookups == {"repository.Current", "git rev-parse", "GET pulls?head"}

(* The run has not yet come back from ResolvePRReference. *)
RefPending ==
    \/ pc \in {"ref", "refOwnerRepo", "refBranch", "refSearch"}
    \/ cmd = "reply" /\ pc = "start"

(* The reference cannot be resolved: it is malformed, it is a bare number  *)
(* or absent outside a git repository, or the current branch has no PR.    *)
Unresolvable ==
    IF HasReference(prArg)
    THEN LET r == ParsePRReference(prArg[1])
         IN \/ ~r.ok
            \/ r.ref.Owner = <<>> /\ env.Repo = Null
    ELSE \/ env.Repo = Null
         \/ env.Branch # Null /\ env.PRs = <<>>

(* Nothing was fetched from the pull request and nothing was changed. *)
NothingFetchedOrChanged ==
    /\ \A k \in DOMAIN calls : calls[k].op \in RefLookups
    /\ reviews = <<>> /\ comments = <<>> /\ issueComments = <<>>
    /\ threads = <<>>
    /\ results = <<>> /\ cleanupResults = <<>> /\ output = <<>>
    /\ CommandWorld

(* C17: in each of the eight commands, a reference that cannot be resolved *)
(* ends the run with an error, and a run that ended with an error of the   *)
(* reference resolution has fetched no reviews, comments or threads and    *)
(* has made no mutation.                                                   *)
C17_ReferenceErrorsAreFatal ==
    cmd \in Commands =>
       /\ err \in RefErrors => (pc = "done" /\ NothingFetchedOrChanged)
       /\ (Unresolvable /\ ~RefPending) =>
             /\ pc = "done"
             /\ err \in RefErrors \cup {"reply body required"}
             /\ NothingFetchedOrChanged

(* C17 witness: `hide --author` on a branch without a pull request ends    *)
(* with the error after the three lookups.                                 *)
C17_Witness ==
    /\ cmd = "hide"
    /\ args = <<>>
    /\ ~flags.DryRun
    /\ pc = "done"
    /\ err = "no PR specified and no pull request found for branch"
    /\ [k \in DOMAIN calls |-> calls[k].op] =
          <<"repository.Current", "git rev-parse", "GET pulls?head">>

(* The calls that fetch data of the pull request; the resolved-status      *)
(* query inside GetReviewComments ("query GetReviewThreads") is not one.   *)
DataFetches ==
    {"GET pulls", "GET pulls/reviews", "GET pulls/comments",
     "GET issues/comments", "query GetReviewThreadsWithID", "GET pulls?head"}

Mutations ==
    {"resolveReviewThread", "unresolveReviewThread", "minimizeComment",
     "unminimizeComment", "POST pulls/comments/replies"}

FailedFetch(k) == calls[k].op \in DataFetches /\ ~calls[k].ok

(* C18: in every command, a run in which a data fetch failed (other than   *)
(* the resolved-status query of the comment listing) ends with an error    *)
(* and makes no mutation after the failed fetch, and no failed call is     *)
(* made a second time in the run.                                          *)
C18_APIErrorsPropagate ==
    cmd \in Commands =>
       /\ (pc = "done" /\ \E k \in DOMAIN calls : FailedFetch(k)) => err # ""
       /\ \A k, j \in DOMAIN calls :
             (k < j /\ FailedFetch(k)) => calls[j].op \notin Mutations
       /\ \A k, j \in DOMAIN calls :
             (k < j /\ ~calls[k].ok) =>
                ~(calls[j].op = calls[k].op /\ calls[j].arg = calls[k].arg)

----------------------------------------------------------------------------
(* Properties of the auto-cleanup that follows `resolve`.                  *)

(* The positions in the call log of the calls performAutoCleanup makes. *)
IsCleanupCall(c) ==
    c.op \in {"GET pulls/reviews", "GET pulls/comments",
              "query GetReviewThreads", "minimizeComment"}

(* The node IDs the run has called minimizeComment on. *)
MinimizedNodes ==
    { calls[k].arg[1] : k \in { j \in DOMAIN calls : calls[j].op = "minimizeComment" } }

(* On the server, comment id is in a thread that is resolved. *)
ResolvedOnServer(id) ==
    ThreadOf(id) # 0 /\ srvThreads[ThreadOf(id)].IsResolved

(* On the server, the review has an inline comment and every inline        *)
(* comment of it is in a resolved thread.                                  *)
AllResolvedOnServer(r) ==
    LET cs == CommentsOfReview(srvComments, r.ID)
    IN /\ cs # <<>>
       /\ \A i \in DOMAIN cs : ResolvedOnServer(cs[i].ID)

(* The auto-cleanup has fetched the reviews, the comments and their        *)
(* resolved status, and its loop over the reviews is over.                 *)
AutoCleanupOver ==
    /\ cmd = "resolve"
    /\ ~flags.Undo
    /\ pc \in {"print", "done"}
    /\ \E k \in DOMAIN calls : calls[k].op = "query GetReviewThreads" /\ calls[k].ok

(* C21: in a `resolve` run without --undo, the fetches and the minimize    *)
(* calls of the auto-cleanup all come after the last thread mutation,      *)
(* every minimize call has the classifier RESOLVED, and once the           *)
(* auto-cleanup is over the reviews it called minimize on are exactly the  *)
(* reviews that have an inline comment and all inline comments resolved    *)
(* on the server.                                                          *)
C21_AutoCleanupAfterResolve ==
    (cmd = "resolve" /\ ~flags.Undo) =>
       /\ \A i, j \in DOMAIN calls :
             (IsThreadMutation(calls[i]) /\ IsCleanupCall(calls[j])) => i < j
       /\ \A k \in DOMAIN calls :
             calls[k].op = "minimizeComment" => calls[k].arg[2] = "RESOLVED"
       /\ AutoCleanupOver =>
             MinimizedNodes =
                { srvReviews[i].NodeID :
                     i \in { j \in DOMAIN srvReviews : AllResolvedOnServer(srvReviews[j]) } }

----------------------------------------------------------------------------
(* Properties of the thread list `resolve` works from.                     *)

(* The number of pages the server serves the thread list as. *)
NumPages ==
    IF srvThreads = <<>> THEN 1
    ELSE (Len(srvThreads) + ThreadsFirst - 1) \div ThreadsFirst

ThreadQueries ==
    SelectSeq(calls, LAMBDA c : c.op = "query GetReviewThreadsWithID")

(* The comment-ID to thread-ID index of the whole thread list. *)
FullIndex ==
    CommentToThread(
        ThreadsOfNodes([i \in DOMAIN srvThreads |-> ThreadNode(srvThreads[i])]),
        EmptyMap)

(* C22: `resolve` makes no mutation before every page of the thread list   *)
(* has been fetched without error, its index is the index of the whole     *)
(* list, and a run in which the fetch of a page failed ends with the error *)
(* and has made no mutation.                                               *)
C22_IndexBeforeMutation ==
    cmd = "resolve" =>
       /\ \A j \in DOMAIN calls :
             calls[j].op \in Mutations =>
                /\ Len(ThreadQueries) = NumPages
                /\ \A k \in DOMAIN calls :
                      calls[k].op = "query GetReviewThreadsWithID" =>
                         (calls[k].ok /\ k < j)
                /\ commentToThread = FullIndex
       /\ (\E k \in DOMAIN ThreadQueries : ~ThreadQueries[k].ok) =>
             /\ pc = "done"
             /\ err = "get review threads"
             /\ results = <<>>
             /\ \A j \in DOMAIN calls : calls[j].op \notin Mutations

(* C22 witness: the thread list has two pages and a thread is resolved by  *)
(* the run.                                                                *)
C22_Witness ==
    /\ cmd = "resolve"
    /\ pc = "done"
    /\ NumPages = 2
    /\ Len(ThreadQueries) = 2
    /\ \E j \in DOMAIN calls : calls[j].op = "resolveReviewThread" /\ calls[j].ok

(* C23: GetReviewThreads asks for the first page with a null cursor and    *)
(* for each later page with the end cursor of the page before; only its    *)
(* last query can fail; it returns after as many queries as the server has *)
(* pages, at the first page without a next page, with the threads of all   *)
(* pages in order, each with its ID, its resolved flag and the comment IDs *)
(* of its node; a failed query returns the error and no threads.           *)
C23_ThreadPaging ==
    cmd = "resolve" =>
       /\ Len(ThreadQueries) <= NumPages
       /\ \A i \in DOMAIN ThreadQueries :
             /\ ThreadQueries[i].arg =
                   IF i = 1 THEN Null
                   ELSE Some(ReviewThreadsPage(ThreadQueries[i - 1].arg).EndCursor)
             /\ i < Len(ThreadQueries) =>
                   /\ ThreadQueries[i].ok
                   /\ ReviewThreadsPage(ThreadQueries[i].arg).HasNextPage
       /\ (pc # "start" /\ err = "") =>
             /\ Len(ThreadQueries) = NumPages
             /\ ~ReviewThreadsPage(ThreadQueries[NumPages].arg).HasNextPage
             /\ Len(threads) = Len(srvThreads)
       /\ pc = "index" =>
             threads = [i \in DOMAIN srvThreads |->
                          [ID |-> srvThreads[i].ID,
                           IsResolved |-> srvThreads[i].IsResolved,
                           CommentIDs |-> ThreadNode(srvThreads[i]).Comments]]
       /\ (\E k \in DOMAIN ThreadQueries : ~ThreadQueries[k].ok) =>
             (threads = <<>> /\ err = "get review threads")

(* C23 witness: three threads, one of them resolved, are returned after    *)
(* two queries.                                                            *)
C23_Witness ==
    /\ cmd = "resolve"
    /\ pc = "index"
    /\ Len(threads) = 3
    /\ threads[3].IsResolved
    /\ Len(ThreadQueries) = 2

----------------------------------------------------------------------------
(* Properties of `hide --author`.                                          *)

(* The comments of cs whose login is the author's, letter case ignored,    *)
(* each as its type, ID and node ID.                                       *)
ByAuthor(cs, type, author) ==
    LET mine == SelectSeq(cs, LAMBDA c : ToLower(c.Login) = ToLower(author))
    IN [i \in DOMAIN mine |-> <<type, mine[i].ID, mine[i].NodeID>>]

(* C24: `hide` with no comment ID and no --author ends with an error       *)
(* having made no call at all; with --author, once both lists are fetched, *)
(* the targets are the review comments and then the issue comments of the  *)
(* pull request whose login equals the author ignoring letter case, in     *)
(* fetched order, and a run without --dry-run that is over has made one    *)
(* call per target, in target order, minimize or (with --undo) unminimize. *)
C24_HideByAuthor ==
    (cmd = "hide" /\ args = <<>>) =>
       /\ flags.Author = "" =>
             /\ calls = <<>>
             /\ comments = <<>> /\ issueComments = <<>>
             /\ pc \in {"start", "done"}
             /\ pc = "done" => err = "batch hide requires --author filter"
       /\ (flags.Author # "" /\ err = "" /\ pc \in {"loop", "done"}) =>
             /\ [k \in DOMAIN targets |->
                   <<targets[k].Type, targets[k].ID, targets[k].NodeID>>]
                = ByAuthor(srvComments, "review", flags.Author)
                     \o ByAuthor(srvIssueComments, "issue", flags.Author)
             /\ (pc = "done" /\ ~flags.DryRun) =>
                   [k \in DOMAIN BatchMutations |->
                      <<BatchMutations[k].op, BatchMutations[k].arg[1]>>]
                   = [k \in DOMAIN targets |->
                        <<IF flags.Undo THEN "unminimizeComment" ELSE "minimizeComment",
                          targets[k].NodeID>>]

(* C24 witness: hide --author Bob hides a review comment and an issue      *)
(* comment of "bob" and leaves a comment of "Alice" alone.                 *)
C24_Witness ==
    /\ cmd = "hide" /\ args = <<>>
    /\ flags.Author = "Bob" /\ ~flags.DryRun /\ ~flags.Undo
    /\ pc = "done" /\ err = ""
    /\ Len(srvComments) = 2
    /\ srvComments[1].Login = "Alice"
    /\ [k \in DOMAIN targets |-> targets[k].Type] = <<"review", "issue">>
    /\ Len(BatchMutations) = 2

----------------------------------------------------------------------------
(* Properties of `cleanup`, end to end.                                    *)

(* The reviews of the pull request the run has called minimize on. *)
MinimizedReviews ==
    { i \in DOMAIN srvReviews : srvReviews[i].NodeID \in MinimizedNodes }

(* The resolved-status query of the run returned the status of comment id. *)
StatusObtained(id) ==
    /\ \E k \in DOMAIN calls : calls[k].op = "query GetReviewThreads" /\ calls[k].ok
    /\ id \in DOMAIN getResolvedStatus

(* C25: every minimize call of a `cleanup` run is on a review of the pull  *)
(* request that has an inline comment and whose inline comments are each   *)
(* in a resolved thread on the server with the status obtained by the run; *)
(* a run whose resolved-status query failed makes no minimize call.        *)
C25_CleanupMinimizesOnlyResolved ==
    cmd = "cleanup" =>
       /\ \A k \in DOMAIN calls :
             calls[k].op \in Mutations =>
                /\ calls[k].op = "minimizeComment"
                /\ \E i \in DOMAIN srvReviews : srvReviews[i].NodeID = calls[k].arg[1]
       /\ \A i \in MinimizedReviews :
             LET cs == CommentsOfReview(srvComments, srvReviews[i].ID)
             IN /\ cs # <<>>
                /\ \A j \in DOMAIN cs :
                      /\ ResolvedOnServer(cs[j].ID)
                      /\ StatusObtained(cs[j].ID)
       /\ (\E k \in DOMAIN calls :
              calls[k].op = "query GetReviewThreads" /\ ~calls[k].ok) =>
             MinimizedNodes = {}

(* C25 witness: review 21 is minimized; review 22 is not, its one comment  *)
(* being in a resolved thread whose status the query did not return.       *)
C25_Witness ==
    /\ cmd = "cleanup"
    /\ pc = "done" /\ err = ""
    /\ Len(srvReviews) = 2
    /\ MinimizedReviews = {1}
    /\ AllResolvedOnServer(srvReviews[2])
    /\ \E j \in DOMAIN srvComments :
          /\ srvComments[j].PullRequestReviewID = srvReviews[2].ID
          /\ ~StatusObtained(srvComments[j].ID)

----------------------------------------------------------------------------
(* Properties of the results of `resolve`.                                 *)

(* C26: every entry of the results of `resolve` that reports success,      *)
(* skipped or not, is for a thread on which the run has made a resolve or  *)
(* unresolve call that returned without error.                             *)
C26_SuccessMeansMutated ==
    cmd = "resolve" =>
       \A k \in DOMAIN results :
          results[k].Success =>
             \E j \in DOMAIN calls :
                /\ IsThreadMutation(calls[j])
                /\ calls[j].arg = results[k].ThreadID
                /\ calls[j].ok

----------------------------------------------------------------------------
(* Properties of the output of `cleanup`.                                  *)

(* A cleanup run without --review-id is over and returned nil. *)
CleanupDone ==
    /\ cmd = "cleanup"
    /\ flags.ReviewID = 0
    /\ pc = "done"
    /\ err = ""

(* The fetched review has an inline comment among the fetched comments and *)
(* all of them are resolved.                                               *)
Eligible(r) ==
    LET cs == CommentsOfReview(comments, r.ID)
    IN cs # <<>> /\ AllResolved(cs)

(* The run made a minimize call on the node, with the given outcome. *)
MinimizeCalled(nodeID, ok) ==
    \E k \in DOMAIN calls :
       /\ calls[k].op = "minimizeComment"
       /\ calls[k].arg[1] = nodeID
       /\ calls[k].ok = ok

(* C27: when a `cleanup` run without --review-id is over, every fetched    *)
(* review is in exactly one of the lists minimized, failed and skipped;    *)
(* the skipped are the reviews that are not eligible; in a dry run the     *)
(* minimized are the eligible reviews and nothing failed; in a real run    *)
(* the minimized are the eligible reviews whose minimize call succeeded    *)
(* and the failed those whose call failed; the calls number the minimized  *)
(* plus the failed in a real run and zero in a dry run; no node is called  *)
(* twice.                                                                  *)
C27_CleanupPartition ==
    /\ cmd = "cleanup" =>
          \A j, k \in DOMAIN BatchMutations :
             j # k => BatchMutations[j].arg[1] # BatchMutations[k].arg[1]
    /\ CleanupDone =>
          LET all == output.Minimized \o output.Failed \o output.Skipped
          IN /\ Len(all) = Len(reviews)
             /\ \A i \in DOMAIN reviews :
                   Cardinality({k \in DOMAIN all : all[k].Review = reviews[i]}) = 1
             /\ \A k \in DOMAIN output.Skipped : ~Eligible(output.Skipped[k].Review)
             /\ \A k \in DOMAIN output.Minimized :
                   /\ Eligible(output.Minimized[k].Review)
                   /\ ~flags.DryRun =>
                         MinimizeCalled(output.Minimized[k].Review.NodeID, TRUE)
             /\ \A k \in DOMAIN output.Failed :
                   /\ ~flags.DryRun
                   /\ Eligible(output.Failed[k].Review)
                   /\ MinimizeCalled(output.Failed[k].Review.NodeID, FALSE)
             /\ Len(BatchMutations) =
                   IF flags.DryRun THEN 0
                   ELSE Len(output.Minimized) + Len(output.Failed)

(* C27 witness: a real run over three reviews ends with one minimized, one *)
(* failed and one skipped.                                                 *)
C27_Witness ==
    /\ CleanupDone
    /\ ~flags.DryRun
    /\ Len(reviews) = 3
    /\ Len(output.Minimized) = 1
    /\ Len(output.Failed) = 1
    /\ Len(output.Skipped) = 1

----------------------------------------------------------------------------
(* Properties of `list --all`.                                             *)

(* The fetched review comments that pass --review-id and --outdated. *)
PassReviewIDAndOutdated ==
    { comments[i].ID :
        i \in { j \in DOMAIN comments :
                  /\ flags.ReviewID = 0
                        \/ comments[j].PullRequestReviewID = flags.ReviewID
                  /\ flags.Outdated = ""
                        \/ flags.Outdated = BoolString(IsOutdated(comments[j])) } }

(* C28: with --all, filterReviewComments keeps the same fetched comments   *)
(* whatever the value of --resolved, and the review comments `list` shows  *)
(* are exactly the fetched ones that pass --review-id and --outdated.      *)
C28_AllOverridesResolved ==
    (cmd = "list" /\ flags.All) =>
       /\ \A v \in {"", "true", "false"} :
             filterReviewComments(comments, [flags EXCEPT !.Resolved = v])
                = filterReviewComments(comments, flags)
       /\ (ListDone /\ flags.CommentType \in {"", "review"}) =>
             ShownReviewIDs = PassReviewIDAndOutdated

(* C28 witness: list --all --resolved=true --review-id=1 shows the         *)
(* unresolved comment of review 1 and not the comment of review 2.         *)
C28_Witness ==
    /\ ListDone
    /\ flags.All /\ flags.Resolved = "true" /\ flags.ReviewID = 1
    /\ flags.Outdated = "" /\ flags.CommentType = ""
    /\ Len(comments) = 2
    /\ comments[1].PullRequestReviewID = 1 /\ ~comments[1].IsResolved
    /\ comments[2].PullRequestReviewID = 2
    /\ ShownReviewIDs = {1}

----------------------------------------------------------------------------
(* Properties of the scope of the auto-cleanup.                            *)

(* The loop over the requested IDs mutated nothing: every result is a      *)
(* comment that was not found or a mutation that failed.                   *)
NothingResolved ==
    /\ results # <<>>
    /\ \A i \in DOMAIN results : ~results[i].Success

(* The review owns one of the requested comments. *)
OwnsRequested(r) ==
    \E k \in DOMAIN args : \E i \in DOMAIN srvComments :
       /\ srvComments[i].ID = args[k]
       /\ srvComments[i].PullRequestReviewID = r.ID

(* C29: a `resolve` run without --undo whose loop is over enters the       *)
(* auto-cleanup whatever the results of the loop are, and once the         *)
(* auto-cleanup has fetched the reviews and the comments and is over,      *)
(* every review of the pull request that has an inline comment and all     *)
(* inline comments resolved on the server has received a minimize call,    *)
(* whether or not it owns a requested comment and also when nothing was    *)
(* resolved.                                                               *)
C29_AutoCleanupWholePR ==
    (cmd = "resolve" /\ ~flags.Undo) =>
       /\ (err = "" /\ pc \in {"print", "done"}) =>
             \E k \in DOMAIN calls : calls[k].op = "GET pulls/reviews"
       /\ AutoCleanupOver =>
             \A j \in DOMAIN srvReviews :
                AllResolvedOnServer(srvReviews[j])
                   => srvReviews[j].NodeID \in MinimizedNodes

----------------------------------------------------------------------------
(* Properties of `cleanup --review-id`.                                    *)

(* A cleanup run with --review-id has fetched the reviews and the review   *)
(* comments and is over.                                                   *)
CleanupByIDDone ==
    /\ cmd = "cleanup"
    /\ flags.ReviewID # 0
    /\ pc = "done"
    /\ \E k \in DOMAIN calls : calls[k] = Call("GET pulls/comments", Null)

(* The fetched reviews with the ID given by --review-id. *)
ReviewsByID == SelectSeq(reviews, LAMBDA r : r.ID = flags.ReviewID)

(* The reviews the output lists report, list by list. *)
ReportedReviews(list) == [k \in DOMAIN list |-> list[k].Review]

(* C30: a `cleanup --review-id=X` run makes no call but minimizeComment    *)
(* RESOLVED on the node of the fetched review X, at most once; when the    *)
(* run is over after its fetches, then: if X is not among the fetched      *)
(* reviews the error is "review with ID not found", nothing is reported    *)
(* and no mutation was made; if X is fetched and not eligible it is the    *)
(* one skipped review, nothing else is reported and no mutation was made;  *)
(* if X is fetched and eligible a real run has made exactly one minimize   *)
(* call, on the node of X, and reports X alone, as minimized or as failed  *)
(* by the outcome of the call, and a dry run has made no call and reports  *)
(* X alone, as minimized.                                                  *)
C30_CleanupReviewIDFrame ==
    /\ (cmd = "cleanup" /\ flags.ReviewID # 0) =>
          /\ Len(BatchMutations) <= 1
          /\ \A k \in DOMAIN BatchMutations :
                /\ BatchMutations[k].op = "minimizeComment"
                /\ BatchMutations[k].arg[2] = "RESOLVED"
                /\ \E i \in DOMAIN srvReviews :
                      /\ srvReviews[i].ID = flags.ReviewID
                      /\ srvReviews[i].NodeID = BatchMutations[k].arg[1]
    /\ CleanupByIDDone =>
          IF ReviewsByID = <<>>
          THEN /\ err = "review with ID not found"
               /\ output = <<>>
               /\ BatchMutations = <<>>
          ELSE /\ err = ""
               /\ Len(ReviewsByID) = 1
               /\ ReportedReviews(output.Minimized \o output.Failed \o output.Skipped)
                     = ReviewsByID
               /\ IF ~Eligible(ReviewsByID[1])
                  THEN /\ ReportedReviews(output.Skipped) = ReviewsByID
                       /\ BatchMutations = <<>>
                  ELSE IF flags.DryRun
                  THEN /\ ReportedReviews(output.Minimized) = ReviewsByID
                       /\ BatchMutations = <<>>
                  ELSE /\ Len(BatchMutations) = 1
                       /\ BatchMutations[1].arg[1] = ReviewsByID[1].NodeID
                       /\ ReportedReviews(IF BatchMutations[1].ok
                                          THEN output.Minimized
                                          ELSE output.Failed) = ReviewsByID

(* C30 witness: a real run with --review-id=21 over three fetched reviews, *)
(* two of them eligible, has made its one minimize call, on review 21.     *)
C30_Witness ==
    /\ CleanupByIDDone
    /\ ~flags.DryRun
    /\ flags.ReviewID = 21
    /\ Len(reviews) = 3
    /\ Cardinality({i \in DOMAIN reviews : Eligible(reviews[i])}) = 2
    /\ Eligible(ReviewsByID[1])
    /\ Len(BatchMutations) = 1
    /\ BatchMutations[1].ok
    /\ ReportedReviews(output.Minimized) = ReviewsByID

====
